---- MODULE Spec2Model ----
(***************************************************************************)
(* PrivateProfileRedirector: the redirected profile-string handlers        *)
(* (Source/Redirector/RedirectedFunctions.cpp) over the registry of cached *)
(* configuration files (Source/PrivateProfileRedirector.h).                *)
(*                                                                         *)
(* Text.  A character is a small number, 0 being the terminator.  A        *)
(* narrow (char) string is made of the bytes 1 and 2 (ASCII) and 3 (a      *)
(* byte >= 0x80, whose meaning depends on the code page); a wide           *)
(* (wchar_t) string and the canonical text kept in the cache are made of   *)
(* the code points 1, 2 (ASCII), 4 and 5.  A pointer is Null or Ptr(x).    *)
(***************************************************************************)
EXTENDS Integers, Sequences, FiniteSets, TLC

\* ------------------------------------------------------------- bounds
MaxLen == 2
MaxSize == 3
MaxCalls == 2
MaxConcCalls == 3
MaxFairCalls == 2

\* ----------------------------------------------------------- pointers
Null == <<>>
Ptr(x) == <<x>>
Min(a, b) == IF a < b THEN a ELSE b

\* The characters a..b of the buffer s.
Chars(s, a, b) == [i \in 1..(b - a + 1) |-> s[i + a - 1]]

\* INT and UINT have one width (32 bits; 16 here, so that 2^IntBits stays
\* within TLC's integers): a negative INT returned as UINT wraps,
\* and so does a size_t that went below zero, returned as DWORD.
IntBits == 16
ToUINT(x) == x % (2 ^ IntBits)

\* ------------------------------------------------- encoding conversion
CodePages == {"cp1", "cp2"}
Widths == {"A", "W"}

\* One byte of a narrow string as a code point, under code page cp.
DecodeByte(b, cp) == IF b \in {1, 2} THEN b ELSE IF cp = "cp1" THEN 4 ELSE 5

\* One code point as a byte of code page cp; 2 ('?') when cp has no such byte.
EncodeChar(c, cp) == IF c \in {1, 2} THEN c ELSE IF c = DecodeByte(3, cp) THEN 3 ELSE 2

\* INIWrapper::EncodingTo(value, converter): TChar text to canonical text.
EncodingTo(s, w, cp) ==
    IF w = "W" THEN s ELSE [i \in 1..Len(s) |-> DecodeByte(s[i], cp)]

\* INIWrapper::EncodingFrom<TChar>(value, converter): canonical text to TChar text.
EncodingFrom(s, w, cp) ==
    IF w = "W" THEN s ELSE [i \in 1..Len(s) |-> EncodeChar(s[i], cp)]

\* The conversion a bare TChar pointer gets where a kxf::String is expected:
\* it does not go through the redirector's converter, but through the
\* string class's own fixed narrow encoding (here the one of "cp1").
ImplicitString(s, w) ==
    IF w = "W" THEN s ELSE [i \in 1..Len(s) |-> DecodeByte(s[i], "cp1")]

\* ------------------------------------------------------- INI document
\* A document maps section names to maps from key names to values.
EmptyINI == [s \in {} |-> {}]

QueryValue(ini, section, key) ==
    IF section \in DOMAIN ini
    THEN IF key \in DOMAIN ini[section] THEN Ptr(ini[section][key]) ELSE Null
    ELSE Null

SetValue(ini, section, key, value) ==
    LET old == QueryValue(ini, section, key)
        keys == IF section \in DOMAIN ini THEN ini[section] ELSE EmptyINI
        keys2 == [k \in DOMAIN keys \cup {key} |-> IF k = key THEN value ELSE keys[k]]
    IN  [ini |-> [s \in DOMAIN ini \cup {section} |-> IF s = section THEN keys2 ELSE ini[s]],
         ok |-> TRUE,
         isSameData |-> (old = Ptr(value))]

DeleteKey(ini, section, key) ==
    IF QueryValue(ini, section, key) = Null
    THEN [ini |-> ini, ok |-> FALSE]
    ELSE [ini |-> [s \in DOMAIN ini |->
                      IF s = section
                      THEN [k \in DOMAIN ini[s] \ {key} |-> ini[s][k]]
                      ELSE ini[s]],
          ok |-> TRUE]

DeleteSection(ini, section) ==
    IF section \in DOMAIN ini
    THEN [ini |-> [s \in DOMAIN ini \ {section} |-> ini[s]], ok |-> TRUE]
    ELSE [ini |-> ini, ok |-> FALSE]

\* ------------------------------------------------- buffer marshaling
\* StringCchLength: the length when a terminator lies within srcMaxSize
\* characters, else failure with length 0.  src points at text followed by
\* its terminator.
StringLength(src, srcMaxSize) ==
    IF src = Null THEN [hr |-> "STRSAFE_E_INVALID_PARAMETER", length |-> 0]
    ELSE IF Len(src[1]) < srcMaxSize
         THEN [hr |-> "S_OK", length |-> Len(src[1])]
         ELSE [hr |-> "STRSAFE_E_INVALID_PARAMETER", length |-> 0]

\* StringCopyBuffer that on truncation leaves the last copied character in
\* place of the terminator.
StringCopyBuffer_NoTerminator(dst, dstSize, src, srcSize) ==
    IF dst = Null \/ src = Null
    THEN [hr |-> "STRSAFE_E_INVALID_PARAMETER", dst |-> dst, copiedSize |-> 0]
    ELSE
      LET old == dst[1]
          copySize == Min(dstSize, srcSize)
          copied == [i \in 1..Len(old) |->
                        IF i <= copySize THEN src[1][i] ELSE IF i <= dstSize THEN 0 ELSE old[i]]
      IN  [hr |-> IF dstSize > srcSize THEN "S_OK" ELSE "STRSAFE_E_INSUFFICIENT_BUFFER",
           dst |-> Ptr(copied), copiedSize |-> copySize]

\* StringCopyBuffer that reports an exact fit of terminated data as a
\* truncation.
StringCopyBuffer_ExactFitFails(dst, dstSize, src, srcSize) ==
    IF dst = Null \/ src = Null
    THEN [hr |-> "STRSAFE_E_INVALID_PARAMETER", dst |-> dst, copiedSize |-> 0]
    ELSE
      LET old == dst[1]
          copySize == Min(dstSize, srcSize)
          zeroed == [i \in 1..Len(old) |-> IF i <= dstSize THEN 0 ELSE old[i]]
          copied == [i \in 1..Len(old) |-> IF i <= copySize THEN src[1][i] ELSE zeroed[i]]
      IN  IF copySize = 0
          THEN [hr |-> "S_OK", dst |-> Ptr(zeroed), copiedSize |-> 0]
          ELSE IF dstSize > srcSize
          THEN [hr |-> "S_OK",
                dst |-> Ptr([copied EXCEPT ![srcSize + 1] = 0]),
                copiedSize |-> copySize]
          ELSE [hr |-> "STRSAFE_E_INSUFFICIENT_BUFFER",
                dst |-> Ptr([copied EXCEPT ![copySize] = 0]),
                copiedSize |-> copySize]

\* StringCopyBuffer that does not zero the destination first.
StringCopyBuffer_NoZeroFill(dst, dstSize, src, srcSize) ==
    IF dst = Null \/ src = Null
    THEN [hr |-> "STRSAFE_E_INVALID_PARAMETER", dst |-> dst, copiedSize |-> 0]
    ELSE
      LET old == dst[1]
          copySize == Min(dstSize, srcSize)
          copied == [i \in 1..Len(old) |-> IF i <= copySize THEN src[1][i] ELSE old[i]]
      IN  IF copySize = 0
          THEN [hr |-> "S_OK", dst |-> Ptr(old), copiedSize |-> 0]
          ELSE IF dstSize > srcSize
          THEN [hr |-> "S_OK",
                dst |-> Ptr([copied EXCEPT ![srcSize + 1] = 0]),
                copiedSize |-> copySize]
          ELSE IF dstSize = srcSize /\ copied[dstSize] = 0
          THEN [hr |-> "S_OK", dst |-> Ptr(copied), copiedSize |-> copySize]
          ELSE [hr |-> "STRSAFE_E_INSUFFICIENT_BUFFER",
                dst |-> Ptr([copied EXCEPT ![copySize] = 0]),
                copiedSize |-> copySize]

\* dst: Null or Ptr(the caller's buffer); src: Null or Ptr(at least srcSize
\* characters).  Result: status, the buffer afterwards, the copied count.
StringCopyBuffer(dst, dstSize, src, srcSize) ==
    IF dst = Null \/ src = Null
    THEN [hr |-> "STRSAFE_E_INVALID_PARAMETER", dst |-> dst, copiedSize |-> 0]
    ELSE
      LET old == dst[1]
          copySize == Min(dstSize, srcSize)
          zeroed == [i \in 1..Len(old) |-> IF i <= dstSize THEN 0 ELSE old[i]]
          copied == [i \in 1..Len(old) |-> IF i <= copySize THEN src[1][i] ELSE zeroed[i]]
      IN  IF copySize = 0
          THEN [hr |-> "S_OK", dst |-> Ptr(zeroed), copiedSize |-> 0]
          ELSE IF dstSize > srcSize
          THEN [hr |-> "S_OK",
                dst |-> Ptr([copied EXCEPT ![srcSize + 1] = 0]),
                copiedSize |-> copySize]
          ELSE IF dstSize = srcSize /\ copied[dstSize] = 0
          THEN [hr |-> "S_OK", dst |-> Ptr(copied), copiedSize |-> copySize]
          ELSE [hr |-> "STRSAFE_E_INSUFFICIENT_BUFFER",
                dst |-> Ptr([copied EXCEPT ![copySize] = 0]),
                copiedSize |-> copySize]

\* ------------------------------------------------------------- state
VARIABLES
    converter,    \* the redirector's encoding converter (a code page)
    options,      \* RedirectorOption flags: SaveOnWrite, NativeWrite
    m_INIMap,     \* normalized path -> index of its ConfigObject in configs
    configs,      \* the ConfigObjects ever constructed, in construction order
    disk,         \* normalized path -> Null (no file) or Ptr(document)
    m_INIMapCS,   \* the thread holding the registry's map lock, or 0
    locks,        \* per ConfigObject: [shared: threads, exclusive: thread or 0]
    pc,           \* per thread: where it is in its current call
    op,           \* per thread: the arguments of its current or last call
    ref,          \* per thread: the ConfigObject GetOrLoadFile returned, or 0
    buf,          \* per thread: lpReturnedString (Null or Ptr(contents))
    ret,          \* per thread: the value the last call returned
    lastError,    \* per thread: what the last call gave to SetLastError
    memOk,        \* per thread: WriteStringToMemoryFile's result
    saved,        \* per thread: number of SaveFile calls of the current call
    native,       \* per thread: Null or Ptr(arguments handed to the native API)
    before,       \* per thread: Null or Ptr(the ConfigObject as the call found it)
    calls,        \* per thread: calls started so far
    lastSet,      \* observer, per normalized path: the last write call, if it set a value
    wrote,        \* observer, per normalized path: <<thread, call>> of the values set
    sawSet,       \* observer, per thread: what a read call saw of lastSet and wrote
    m_Functions   \* the interception bindings: their status, the log, the phase

vars == <<converter, options, m_INIMap, configs, disk, m_INIMapCS, locks, pc, op,
          ref, buf, ret, lastError, memOk, saved, native, before, calls,
          lastSet, wrote, sawSet, m_Functions>>

\* ---------------------------------------------------------- registry
NormPaths == {"a.ini", "b.ini"}

\* Path equality is case-insensitive: paths are normalized before lookup.
NormalizeFilePath(path) == IF path \in {"a.ini", "A.INI"} THEN "a.ini" ELSE "b.ini"

\* INIObject/ConfigObject::LoadFile: a missing file is an empty document.
LoadFile(path, dsk) ==
    IF dsk[path] = Null
    THEN [path |-> path, ini |-> EmptyINI, changed |-> FALSE, existOnDisk |-> FALSE]
    ELSE [path |-> path, ini |-> dsk[path][1], changed |-> FALSE, existOnDisk |-> TRUE]

\* A lookup that gives every path the first entry of the registry.
FindFile_FirstEntry(map, path) == IF DOMAIN map = {} THEN 0 ELSE 1

\* GetOrLoadFile's lookup: the index of the path's entry, 0 when it has none.
FindFile(map, path) ==
    IF NormalizeFilePath(path) \in DOMAIN map THEN map[NormalizeFilePath(path)] ELSE 0

\* GetOrLoadFile's miss: a new entry is constructed, loaded and inserted.
InsertFile(map, cfgs, dsk, path) ==
    [map |-> (NormalizeFilePath(path) :> (Len(cfgs) + 1)) @@ map,
     configs |-> Append(cfgs, LoadFile(NormalizeFilePath(path), dsk)),
     idx |-> Len(cfgs) + 1]

\* GetOrLoadFile that loads the file again on every call.
GetOrLoadFile_Reloads(map, cfgs, dsk, path) ==
    IF FindFile(map, path) # 0
    THEN [map |-> map,
          configs |-> [cfgs EXCEPT ![FindFile(map, path)] =
                          LoadFile(NormalizeFilePath(path), dsk)],
          idx |-> FindFile(map, path)]
    ELSE InsertFile(map, cfgs, dsk, path)

\* GetOrLoadFile, from lookup to return.
GetOrLoadFile(map, cfgs, dsk, path) ==
    IF FindFile(map, path) # 0
    THEN [map |-> map, configs |-> cfgs, idx |-> FindFile(map, path)]
    ELSE InsertFile(map, cfgs, dsk, path)

\* SaveFile: on success the file holds the document and the entry is clean;
\* on failure nothing changes (the entry stays dirty).
SaveFile(obj, dsk, ioOk) ==
    IF ioOk
    THEN [obj |-> [obj EXCEPT !.changed = FALSE, !.existOnDisk = TRUE],
          disk |-> [dsk EXCEPT ![obj.path] = Ptr(obj.ini)],
          saved |-> 1]
    ELSE [obj |-> obj, disk |-> dsk, saved |-> 1]

\* OnWrite: mark changed; flush when SaveOnWrite is on (and NativeWrite off).
OnWrite(obj, dsk, opts, ioOk) ==
    LET dirty == [obj EXCEPT !.changed = TRUE]
    IN  IF opts.SaveOnWrite /\ ~opts.NativeWrite
        THEN SaveFile(dirty, dsk, ioOk)
        ELSE [obj |-> dirty, disk |-> dsk, saved |-> 0]

\* ---------------------------------------------------------- handlers
\* Validation that looks at the buffer before the path.
GetStringValidate_BufferFirst(o) ==
    IF o.lpReturnedString = Null \/ o.nSize < 2 THEN "ERROR_INSUFFICIENT_BUFFER"
    ELSE IF o.lpFileName = Null THEN "ERROR_FILE_NOT_FOUND"
    ELSE "ok"

\* GetStringT, lines 154-163.
GetStringValidate(o) ==
    IF o.lpFileName = Null THEN "ERROR_FILE_NOT_FOUND"
    ELSE IF o.lpReturnedString = Null \/ o.nSize < 2 THEN "ERROR_INSUFFICIENT_BUFFER"
    ELSE "ok"

\* GetStringT, lines 236-279: the value, the default or the empty string.
GetStringValue(ini, o, cp) ==
    LET value == QueryValue(ini, EncodingTo(o.appName[1], o.w, cp),
                                 EncodingTo(o.keyName[1], o.w, cp))
    IN  IF value # Null
        THEN LET valueRef == EncodingFrom(value[1], o.w, cp)
                 c == StringCopyBuffer(o.lpReturnedString, o.nSize,
                                       Ptr(valueRef), Len(valueRef))
             IN  [buf |-> c.dst,
                  result |-> IF c.hr = "STRSAFE_E_INSUFFICIENT_BUFFER"
                             THEN o.nSize - 1 ELSE Len(valueRef)]
        ELSE IF o.lpString # Null
        THEN LET length == StringLength(o.lpString, o.nSize).length
                 c == StringCopyBuffer(o.lpReturnedString, o.nSize, o.lpString, length)
             IN  [buf |-> c.dst,
                  result |-> IF c.hr = "STRSAFE_E_INSUFFICIENT_BUFFER"
                             THEN o.nSize - 1 ELSE length]
        ELSE LET c == StringCopyBuffer(o.lpReturnedString, o.nSize, Ptr(<<0>>), 1)
             IN  [buf |-> c.dst, result |-> 0]

\* WriteStringT's WriteStringToMemoryFile, lines 411-420.
WriteStringValidate(o) ==
    IF o.lpFileName = Null THEN "ERROR_FILE_NOT_FOUND"
    ELSE IF o.appName = Null THEN "ERROR_INVALID_PARAMETER"
    ELSE "ok"

\* WriteStringToMemoryFile whose delete-value branch drops the whole section.
WriteStringToMemoryFile_DeleteKeyDropsSection(ini, o, cp) ==
    IF o.keyName = Null \/ o.lpString = Null
    THEN LET d == DeleteSection(ini, EncodingTo(o.appName[1], o.w, cp))
         IN  [ini |-> d.ini, success |-> d.ok, onWrite |-> d.ok]
    ELSE LET s == SetValue(ini, ImplicitString(o.appName[1], o.w),
                                ImplicitString(o.keyName[1], o.w),
                                EncodingTo(o.lpString[1], o.w, cp))
         IN  [ini |-> s.ini, success |-> s.ok, onWrite |-> s.ok /\ ~s.isSameData]

\* WriteStringToMemoryFile whose delete-value branch does not call OnWrite.
WriteStringToMemoryFile_DeleteSkipsOnWrite(ini, o, cp) ==
    IF o.keyName = Null
    THEN LET d == DeleteSection(ini, EncodingTo(o.appName[1], o.w, cp))
         IN  [ini |-> d.ini, success |-> d.ok, onWrite |-> d.ok]
    ELSE IF o.lpString = Null
    THEN LET d == DeleteKey(ini, EncodingTo(o.appName[1], o.w, cp),
                                 EncodingTo(o.keyName[1], o.w, cp))
         IN  [ini |-> d.ini, success |-> d.ok, onWrite |-> FALSE]
    ELSE LET s == SetValue(ini, ImplicitString(o.appName[1], o.w),
                                ImplicitString(o.keyName[1], o.w),
                                EncodingTo(o.lpString[1], o.w, cp))
         IN  [ini |-> s.ini, success |-> s.ok, onWrite |-> s.ok /\ ~s.isSameData]

\* WriteStringToMemoryFile, lines 427-472, on the locked entry's document:
\* the document afterwards, the lambda's result, whether OnWrite is called.
WriteStringToMemoryFile(ini, o, cp) ==
    IF o.keyName = Null
    THEN LET d == DeleteSection(ini, EncodingTo(o.appName[1], o.w, cp))
         IN  [ini |-> d.ini, success |-> d.ok, onWrite |-> d.ok]
    ELSE IF o.lpString = Null
    THEN LET d == DeleteKey(ini, EncodingTo(o.appName[1], o.w, cp),
                                 EncodingTo(o.keyName[1], o.w, cp))
         IN  [ini |-> d.ini, success |-> d.ok, onWrite |-> d.ok]
    ELSE LET s == SetValue(ini, ImplicitString(o.appName[1], o.w),
                                ImplicitString(o.keyName[1], o.w),
                                EncodingTo(o.lpString[1], o.w, cp))
         IN  [ini |-> s.ini, success |-> s.ok, onWrite |-> s.ok /\ ~s.isSameData]

\* ------------------------------------------------------ call arguments
Threads == {1, 2}

\* Section names: "a" and a one-character non-ASCII name.
SectionArgs(w) == IF w = "A" THEN {<<1>>, <<3>>} ELSE {<<1>>, <<4>>}
KeyArgs == {<<1>>, <<2>>}

\* The text of length n: "a", then a non-ASCII character, then "a"s.
Text(n, w) == [i \in 1..n |-> IF i = 2 THEN (IF w = "A" THEN 3 ELSE 4) ELSE 1]
ValueArgs(w) == {Text(n, w) : n \in 0..MaxLen}

\* A caller's buffer of n characters before the call: stale contents.
Stale(n) == [i \in 1..n |-> 9]

WriteOp(w, a, k, v, f) ==
    [kind |-> "WriteString", w |-> w, appName |-> a, keyName |-> k, lpString |-> v,
     lpReturnedString |-> Null, nSize |-> 0, lpFileName |-> f]

\* lpString is GetStringT's defaultValue.
GetStringOp(w, a, k, d, n, f) ==
    [kind |-> "GetString", w |-> w, appName |-> a, keyName |-> k, lpString |-> d,
     lpReturnedString |-> Ptr(Stale(n)), nSize |-> n, lpFileName |-> f]

NoOp == WriteOp("W", Null, Null, Null, Null)

\* Every mode of WriteString on the given paths.
WriteOps(paths) ==
    UNION {{WriteOp(w, Ptr(a), k, v, Ptr(f)) :
               a \in SectionArgs(w),
               k \in {Null} \cup {Ptr(x) : x \in KeyArgs},
               v \in {Null} \cup {Ptr(x) : x \in ValueArgs(w)},
               f \in paths} : w \in Widths}

\* Read-value calls with no default.
GetValueOps(paths) ==
    UNION {{GetStringOp(w, Ptr(a), Ptr(k), Null, n, Ptr(f)) :
               a \in SectionArgs(w), k \in KeyArgs, n \in 2..MaxSize, f \in paths}
           : w \in Widths}

\* ---------------------------------------------------------------- Init
\* a.ini exists and holds three sections; b.ini does not exist.
\*   [a] a=a, ?=a?      [U+4] a=a      [U+5] a=a
\* ---------------------------------------------------------- interception bindings
\* The six redirected entry points, in the order of the members that keep
\* the address of the original API (m_GetPrivateProfileStringA, ...).
FunctionNames ==
    << "GetPrivateProfileStringA", "GetPrivateProfileStringW",
       "WritePrivateProfileStringA", "WritePrivateProfileStringW",
       "GetPrivateProfileIntA", "GetPrivateProfileIntW" >>

Functions == 1..Len(FunctionNames)

\* The status codes of the binary-redirection primitive: 0 is success.
DetourStatuses == {0, 1}

Succeeded(status) == status = 0

\* LogAttachDetachStatus: one log line per call, under the binding's name.
LogAttachDetachStatus(f, status, operation, i) ==
    [f EXCEPT !.log = Append(@, [operation |-> operation,
                                 name |-> FunctionNames[i],
                                 status |-> status])]

AttachFunction_AlwaysAttached(f, i, status, stored) ==
    LogAttachDetachStatus(
        [f EXCEPT !.status[i] = "Attached",
                  !.original[i] = stored],
        status, "AttachFunction", i)

\* AttachFunction: DetourAttach on the binding, the status logged and
\* returned; nothing is thrown and nothing is aborted on a failure.  The
\* primitive is handed the address of the parameter `original`, a copy of
\* the member that dies when AttachFunction returns: where the trampoline
\* address ends up is not defined, so `stored` is either outcome (the member
\* still holds the entry point, "api", or it holds the "trampoline").
AttachFunction(f, i, status, stored) ==
    LogAttachDetachStatus(
        [f EXCEPT !.status[i] = IF Succeeded(status) THEN "Attached" ELSE @,
                  !.original[i] = IF Succeeded(status) THEN stored ELSE @],
        status, "AttachFunction", i)

\* DetachFunction: DetourDetach on the binding, logged and returned alike.
DetachFunction(f, i, status) ==
    LogAttachDetachStatus(
        [f EXCEPT !.status[i] = IF Succeeded(status) THEN "Detached" ELSE @,
                  !.original[i] = IF Succeeded(status) THEN "api" ELSE @],
        status, "DetachFunction", i)

\* InitFunctions: the table as built at initialization, nothing attached.
InitFunctions ==
    [phase |-> "OverrideFunctions",
     next |-> 1,
     status |-> [i \in Functions |-> "Detached"],
     original |-> [i \in Functions |-> "api"],
     log |-> <<>>,
     called |-> Null]

\* The bindings while the handlers serve calls: attached, the log of the
\* six successful attaches behind them.
RECURSIVE AttachAll(_, _)
AttachAll(f, i) ==
    IF i > Len(FunctionNames) THEN [f EXCEPT !.phase = "InUse", !.next = 1]
    ELSE AttachAll(AttachFunction(f, i, 0, "trampoline"), i + 1)

FunctionsInUse == AttachAll(InitFunctions, 1)

InitialINI ==
    (<<1>> :> ((<<1>> :> <<1>>) @@ (<<2>> :> <<1, 2>>)))
    @@ (<<4>> :> (<<1>> :> <<1>>))
    @@ (<<5>> :> (<<1>> :> <<1>>))

InitialDisk == [p \in NormPaths |-> IF p = "a.ini" THEN Ptr(InitialINI) ELSE Null]

Init ==
    /\ converter \in CodePages
    /\ options \in [SaveOnWrite : BOOLEAN, NativeWrite : BOOLEAN]
    /\ m_INIMap = <<>>
    /\ configs = <<>>
    /\ disk = InitialDisk
    /\ m_INIMapCS = 0
    /\ locks = <<>>
    /\ pc = [t \in Threads |-> "idle"]
    /\ op = [t \in Threads |-> NoOp]
    /\ ref = [t \in Threads |-> 0]
    /\ buf = [t \in Threads |-> Null]
    /\ ret = [t \in Threads |-> 0]
    /\ lastError = [t \in Threads |-> "none"]
    /\ memOk = [t \in Threads |-> FALSE]
    /\ saved = [t \in Threads |-> 0]
    /\ native = [t \in Threads |-> Null]
    /\ before = [t \in Threads |-> Null]
    /\ calls = [t \in Threads |-> 0]
    /\ lastSet = [p \in NormPaths |-> Null]
    /\ wrote = [p \in NormPaths |-> {}]
    /\ sawSet = [t \in Threads |-> Null]
    /\ m_Functions = FunctionsInUse

FreeLock == [shared |-> {}, exclusive |-> 0]

\* locks grown to cover every ConfigObject of cfgs.
LocksFor(cfgs) == IF Len(cfgs) > Len(locks) THEN Append(locks, FreeLock) ELSE locks

\* What a write call leaves in lastSet: itself when it set a value and
\* returned TRUE.
SetRecord(o, success, result) ==
    IF o.keyName # Null /\ o.lpString # Null /\ success /\ result = 1 THEN Ptr(o) ELSE Null

BoolOf(b) == IF b THEN 1 ELSE 0

\* WriteLocked where a failed save fails the in-memory write.
WriteLocked_SaveFailureFails(obj, o, dsk, ioOk) ==
    LET m == WriteStringToMemoryFile(obj.ini, o, converter)
        written == [obj EXCEPT !.ini = m.ini]
        w == IF m.onWrite
             THEN OnWrite(written, dsk, options, ioOk)
             ELSE [obj |-> written, disk |-> dsk, saved |-> 0]
    IN  [obj |-> w.obj, disk |-> w.disk, saved |-> w.saved,
         success |-> m.success /\ (w.saved = 0 \/ ~w.obj.changed)]

\* WriteStringT, lines 425-472, on the locked entry obj: the mutation, then
\* OnWrite when the branch taken calls it.
WriteLocked(obj, o, dsk, ioOk) ==
    LET m == WriteStringToMemoryFile(obj.ini, o, converter)
        written == [obj EXCEPT !.ini = m.ini]
        w == IF m.onWrite
             THEN OnWrite(written, dsk, options, ioOk)
             ELSE [obj |-> written, disk |-> dsk, saved |-> 0]
    IN  [obj |-> w.obj, disk |-> w.disk, saved |-> w.saved, success |-> m.success]

\* A result that is TRUE only when both the in-memory write and the native
\* call succeeded.
HandlerResult_BothMustSucceed(memoryWriteSuccess, nativeResult) ==
    IF options.NativeWrite
    THEN BoolOf(memoryWriteSuccess /\ nativeResult = 1)
    ELSE BoolOf(memoryWriteSuccess)

\* WriteStringT, lines 476-489: the native call's result under NativeWrite,
\* else the in-memory result.
HandlerResult(memoryWriteSuccess, nativeResult) ==
    IF options.NativeWrite THEN nativeResult ELSE BoolOf(memoryWriteSuccess)

\* --------------------------------------- whole calls (one thread alone)
\* WriteStringT from entry to return.
WriteStringT(t, o) ==
    \E ioOk \in BOOLEAN, nativeResult \in {0, 1} :
        LET v == WriteStringValidate(o)
            g == GetOrLoadFile(m_INIMap, configs, disk, o.lpFileName[1])
            obj == g.configs[g.idx]
            w == WriteLocked(obj, o, disk, ioOk)
            memoryWriteSuccess == v = "ok" /\ w.success
        IN  /\ pc[t] = "idle"
            /\ pc' = [pc EXCEPT ![t] = "done"]
            /\ calls' = [calls EXCEPT ![t] = @ + 1]
            /\ op' = [op EXCEPT ![t] = o]
            /\ buf' = [buf EXCEPT ![t] = Null]
            /\ lastError' = [lastError EXCEPT ![t] = IF v = "ok" THEN "none" ELSE v]
            /\ memOk' = [memOk EXCEPT ![t] = memoryWriteSuccess]
            /\ IF v = "ok"
               THEN /\ m_INIMap' = g.map
                    /\ configs' = [g.configs EXCEPT ![g.idx] = w.obj]
                    /\ locks' = LocksFor(g.configs)
                    /\ disk' = w.disk
                    /\ ref' = [ref EXCEPT ![t] = g.idx]
                    /\ before' = [before EXCEPT ![t] = Ptr(obj)]
                    /\ saved' = [saved EXCEPT ![t] = w.saved]
               ELSE /\ UNCHANGED <<m_INIMap, configs, locks, disk, ref, before, saved>>
            /\ native' = [native EXCEPT ![t] = IF options.NativeWrite THEN Ptr(o) ELSE Null]
            /\ ret' = [ret EXCEPT ![t] = HandlerResult(memoryWriteSuccess, nativeResult)]
            /\ UNCHANGED <<converter, m_Functions, options, m_INIMapCS, lastSet, wrote, sawSet>>

\* GetStringT from entry to return (read-value mode).
GetStringT(t, o) ==
    LET v == GetStringValidate(o)
        g == GetOrLoadFile(m_INIMap, configs, disk, o.lpFileName[1])
        obj == g.configs[g.idx]
        r == GetStringValue(obj.ini, o, converter)
    IN  /\ pc[t] = "idle"
        /\ pc' = [pc EXCEPT ![t] = "done"]
        /\ calls' = [calls EXCEPT ![t] = @ + 1]
        /\ op' = [op EXCEPT ![t] = o]
        /\ lastError' = [lastError EXCEPT ![t] = IF v = "ok" THEN "none" ELSE v]
        /\ IF v = "ok"
           THEN /\ m_INIMap' = g.map
                /\ configs' = g.configs
                /\ locks' = LocksFor(g.configs)
                /\ ref' = [ref EXCEPT ![t] = g.idx]
                /\ before' = [before EXCEPT ![t] = Ptr(obj)]
                /\ buf' = [buf EXCEPT ![t] = r.buf]
                /\ ret' = [ret EXCEPT ![t] = r.result]
           ELSE /\ UNCHANGED <<m_INIMap, configs, locks, ref, before>>
                /\ buf' = [buf EXCEPT ![t] = o.lpReturnedString]
                /\ ret' = [ret EXCEPT ![t] = 0]
        /\ UNCHANGED <<converter, m_Functions, options, disk, m_INIMapCS, memOk, saved, native,
                       lastSet, wrote, sawSet>>

\* The caller takes the result; the thread is ready for its next call.
Return(t) ==
    /\ pc[t] = "done"
    /\ pc' = [pc EXCEPT ![t] = "idle"]
    /\ op' = [op EXCEPT ![t] = NoOp]
    /\ ref' = [ref EXCEPT ![t] = 0]
    /\ buf' = [buf EXCEPT ![t] = Null]
    /\ ret' = [ret EXCEPT ![t] = 0]
    /\ lastError' = [lastError EXCEPT ![t] = "none"]
    /\ memOk' = [memOk EXCEPT ![t] = FALSE]
    /\ saved' = [saved EXCEPT ![t] = 0]
    /\ native' = [native EXCEPT ![t] = Null]
    /\ before' = [before EXCEPT ![t] = Null]
    /\ sawSet' = [sawSet EXCEPT ![t] = Null]
    /\ UNCHANGED <<converter, m_Functions, options, m_INIMap, configs, disk, m_INIMapCS, locks, calls,
                   lastSet, wrote>>

SeqPaths == {"a.ini"}

Next ==
    \/ /\ calls[1] < MaxCalls
       /\ \E o \in WriteOps(SeqPaths) : WriteStringT(1, o)
    \/ /\ calls[1] < MaxCalls
       /\ \E o \in GetValueOps(SeqPaths) : GetStringT(1, o)
    \/ Return(1)

Spec == Init /\ [][Next]_vars

\* ------------------------------------- interleaved calls (step by step)
\* Narrow calls on a new key of the section a non-ASCII byte names: writes
\* of two values to two files, reads of the first file under another
\* spelling of its path.
ConcWriteOps ==
    {WriteOp("A", Ptr(<<3>>), Ptr(<<2>>), Ptr(v), Ptr(f)) :
        v \in {Text(1, "A"), Text(MaxLen, "A")}, f \in {"a.ini", "b.ini"}}

ConcReadOps ==
    {GetStringOp("A", Ptr(<<3>>), Ptr(<<2>>), Null, MaxSize, Ptr("A.INI"))}

Validate(o) ==
    IF o.kind = "WriteString" THEN WriteStringValidate(o) ELSE GetStringValidate(o)

\* The handler is entered and validates its arguments (lines 154-163, 411-420).
BeginCall(t, o) ==
    /\ pc[t] = "idle"
    /\ calls' = [calls EXCEPT ![t] = @ + 1]
    /\ op' = [op EXCEPT ![t] = o]
    /\ buf' = [buf EXCEPT ![t] = o.lpReturnedString]
    /\ lastError' = [lastError EXCEPT ![t] = IF Validate(o) = "ok" THEN "none" ELSE Validate(o)]
    /\ IF Validate(o) = "ok"
       THEN /\ pc' = [pc EXCEPT ![t] = "lookup"]
            /\ UNCHANGED <<ret, native>>
       ELSE /\ pc' = [pc EXCEPT ![t] = "done"]
            /\ \E nativeResult \in {0, 1} :
                  ret' = [ret EXCEPT ![t] = IF o.kind = "WriteString"
                                            THEN HandlerResult(FALSE, nativeResult) ELSE 0]
            /\ native' = [native EXCEPT ![t] =
                             IF o.kind = "WriteString" /\ options.NativeWrite
                             THEN Ptr(o) ELSE Null]
    /\ sawSet' = [sawSet EXCEPT ![t] =
                     IF o.kind = "GetString" /\ Validate(o) = "ok"
                     THEN Ptr([began |-> lastSet[NormalizeFilePath(o.lpFileName[1])],
                               writers |-> wrote[NormalizeFilePath(o.lpFileName[1])],
                               ran |-> Null])
                     ELSE Null]
    /\ UNCHANGED <<converter, m_Functions, options, m_INIMap, configs, disk, m_INIMapCS, locks, ref,
                   memOk, saved, before, lastSet, wrote>>

\* GetOrLoadFile entered without taking the map lock.
AcquireMap_NoLock(t) ==
    /\ pc[t] = "lookup"
    /\ pc' = [pc EXCEPT ![t] = "inmap"]
    /\ UNCHANGED <<converter, m_Functions, options, m_INIMap, configs, disk, m_INIMapCS, locks, op, ref,
                   buf, ret, lastError, memOk, saved, native, before, calls, lastSet, wrote,
                   sawSet>>

\* GetOrLoadFile takes the map lock.
AcquireMap(t) ==
    /\ pc[t] = "lookup"
    /\ m_INIMapCS = 0
    /\ m_INIMapCS' = t
    /\ pc' = [pc EXCEPT ![t] = "inmap"]
    /\ UNCHANGED <<converter, m_Functions, options, m_INIMap, configs, disk, locks, op, ref, buf, ret,
                   lastError, memOk, saved, native, before, calls, lastSet, wrote, sawSet>>

\* GetOrLoadFile looks the path up; a hit returns the entry and releases
\* the map lock.
FindEntry(t) ==
    /\ pc[t] = "inmap"
    /\ IF FindFile(m_INIMap, op[t].lpFileName[1]) # 0
       THEN /\ ref' = [ref EXCEPT ![t] = FindFile(m_INIMap, op[t].lpFileName[1])]
            /\ m_INIMapCS' = 0
            /\ pc' = [pc EXCEPT ![t] = "lock"]
       ELSE /\ pc' = [pc EXCEPT ![t] = "load"]
            /\ UNCHANGED <<ref, m_INIMapCS>>
    /\ UNCHANGED <<converter, m_Functions, options, m_INIMap, configs, disk, locks, op, buf, ret,
                   lastError, memOk, saved, native, before, calls, lastSet, wrote, sawSet>>

\* GetOrLoadFile constructs, loads and inserts the entry, and releases the
\* map lock.
LoadEntry(t) ==
    LET g == InsertFile(m_INIMap, configs, disk, op[t].lpFileName[1])
    IN  /\ pc[t] = "load"
        /\ m_INIMap' = g.map
        /\ configs' = g.configs
        /\ locks' = Append(locks, FreeLock)
        /\ ref' = [ref EXCEPT ![t] = g.idx]
        /\ m_INIMapCS' = 0
        /\ pc' = [pc EXCEPT ![t] = "lock"]
        /\ UNCHANGED <<converter, m_Functions, options, disk, op, buf, ret, lastError, memOk, saved,
                       native, before, calls, lastSet, wrote, sawSet>>

\* configObject.LockShared() (line 168): waits while a writer holds the entry.
LockShared(t) ==
    /\ pc[t] = "lock"
    /\ op[t].kind = "GetString"
    /\ locks[ref[t]].exclusive = 0
    /\ locks' = [locks EXCEPT ![ref[t]].shared = @ \cup {t}]
    /\ before' = [before EXCEPT ![t] = Ptr(configs[ref[t]])]
    /\ pc' = [pc EXCEPT ![t] = "body"]
    /\ UNCHANGED <<converter, m_Functions, options, m_INIMap, configs, disk, m_INIMapCS, op, ref, buf,
                   ret, lastError, memOk, saved, native, calls, lastSet, wrote, sawSet>>

\* An exclusive lock that does not wait for the readers inside the entry.
LockExclusive_IgnoresReaders(t) ==
    /\ pc[t] = "lock"
    /\ op[t].kind = "WriteString"
    /\ locks[ref[t]].exclusive = 0
    /\ locks' = [locks EXCEPT ![ref[t]].exclusive = t]
    /\ before' = [before EXCEPT ![t] = Ptr(configs[ref[t]])]
    /\ pc' = [pc EXCEPT ![t] = "body"]
    /\ UNCHANGED <<converter, m_Functions, options, m_INIMap, configs, disk, m_INIMapCS, op, ref, buf,
                   ret, lastError, memOk, saved, native, calls, lastSet, wrote, sawSet>>

\* configObject.LockExclusive() (line 424): waits while anyone holds the entry.
LockExclusive(t) ==
    /\ pc[t] = "lock"
    /\ op[t].kind = "WriteString"
    /\ locks[ref[t]].exclusive = 0
    /\ locks[ref[t]].shared = {}
    /\ locks' = [locks EXCEPT ![ref[t]].exclusive = t]
    /\ before' = [before EXCEPT ![t] = Ptr(configs[ref[t]])]
    /\ pc' = [pc EXCEPT ![t] = "body"]
    /\ UNCHANGED <<converter, m_Functions, options, m_INIMap, configs, disk, m_INIMapCS, op, ref, buf,
                   ret, lastError, memOk, saved, native, calls, lastSet, wrote, sawSet>>

\* A read that returns without releasing its shared lock.
GetStringBody_KeepsLock(t) ==
    LET r == GetStringValue(configs[ref[t]].ini, op[t], converter)
    IN  /\ pc[t] = "body"
        /\ op[t].kind = "GetString"
        /\ buf' = [buf EXCEPT ![t] = r.buf]
        /\ ret' = [ret EXCEPT ![t] = r.result]
        /\ sawSet' = [sawSet EXCEPT ![t] = Ptr([@[1] EXCEPT !.ran = lastSet[configs[ref[t]].path]])]
        /\ pc' = [pc EXCEPT ![t] = "done"]
        /\ UNCHANGED <<converter, m_Functions, options, m_INIMap, configs, disk, m_INIMapCS, locks, op,
                       ref, lastError, memOk, saved, native, before, calls, lastSet, wrote>>

\* GetStringT, lines 236-279, under the shared lock, to the return.
GetStringBody(t) ==
    LET r == GetStringValue(configs[ref[t]].ini, op[t], converter)
    IN  /\ pc[t] = "body"
        /\ op[t].kind = "GetString"
        /\ buf' = [buf EXCEPT ![t] = r.buf]
        /\ ret' = [ret EXCEPT ![t] = r.result]
        /\ sawSet' = [sawSet EXCEPT ![t] = Ptr([@[1] EXCEPT !.ran = lastSet[configs[ref[t]].path]])]
        /\ locks' = [locks EXCEPT ![ref[t]].shared = @ \ {t}]
        /\ pc' = [pc EXCEPT ![t] = "done"]
        /\ UNCHANGED <<converter, m_Functions, options, m_INIMap, configs, disk, m_INIMapCS, op, ref,
                       lastError, memOk, saved, native, before, calls, lastSet, wrote>>

\* WriteStringT, lines 427-489, under the exclusive lock, to the return.
WriteStringBody(t) ==
    \E ioOk \in BOOLEAN, nativeResult \in {0, 1} :
        LET w == WriteLocked(configs[ref[t]], op[t], disk, ioOk)
        IN  /\ pc[t] = "body"
            /\ op[t].kind = "WriteString"
            /\ configs' = [configs EXCEPT ![ref[t]] = w.obj]
            /\ disk' = w.disk
            /\ saved' = [saved EXCEPT ![t] = w.saved]
            /\ memOk' = [memOk EXCEPT ![t] = w.success]
            /\ locks' = [locks EXCEPT ![ref[t]].exclusive = 0]
            /\ native' = [native EXCEPT ![t] = IF options.NativeWrite THEN Ptr(op[t]) ELSE Null]
            /\ ret' = [ret EXCEPT ![t] = HandlerResult(w.success, nativeResult)]
            /\ lastSet' = [lastSet EXCEPT ![w.obj.path] =
                              SetRecord(op[t], w.success, HandlerResult(w.success, nativeResult))]
            /\ wrote' = [wrote EXCEPT ![w.obj.path] =
                            IF SetRecord(op[t], w.success, HandlerResult(w.success, nativeResult)) # Null
                            THEN @ \cup {<<t, op[t]>>} ELSE @]
            /\ pc' = [pc EXCEPT ![t] = "done"]
            /\ UNCHANGED <<converter, m_Functions, options, m_INIMap, m_INIMapCS, op, ref, buf, lastError,
                           before, calls, sawSet>>

TotalCalls == calls[1] + calls[2]

\* Interleaved calls drawn from ops, at most maxCalls of them in all.
Interleaved(ops, maxCalls) ==
    \/ /\ TotalCalls < maxCalls
       /\ \E t \in Threads : \E o \in ops : BeginCall(t, o)
    \/ \E t \in Threads : AcquireMap(t)
    \/ \E t \in Threads : FindEntry(t)
    \/ \E t \in Threads : LoadEntry(t)
    \/ \E t \in Threads : LockShared(t)
    \/ \E t \in Threads : LockExclusive(t)
    \/ \E t \in Threads : GetStringBody(t)
    \/ \E t \in Threads : WriteStringBody(t)
    \/ \E t \in Threads : Return(t)

NextConc == Interleaved(ConcWriteOps \cup ConcReadOps, MaxConcCalls)

\* The interleaved runs leave native passthrough off: the native call comes
\* after the entry lock is released and touches nothing of the registry.
InitConc == Init /\ ~options.NativeWrite

SpecConc == InitConc /\ [][NextConc]_vars

\* One more step of thread t's current call.
Step(t) ==
    \/ AcquireMap(t) \/ FindEntry(t) \/ LoadEntry(t)
    \/ LockShared(t) \/ LockExclusive(t)
    \/ GetStringBody(t) \/ WriteStringBody(t)

\* The runs whose calls must end: one value written to either file, reads
\* of the first file.
FairOps == {o \in ConcWriteOps : o.lpString = Ptr(Text(1, "A"))} \cup ConcReadOps

NextFair == Interleaved(FairOps, MaxFairCalls)

\* Every thread inside a call that can take a step eventually takes one.
FairSpec == InitConc /\ [][NextFair]_vars /\ \A t \in Threads : WF_vars(Step(t))

\* ------------------------------------------------------------ locking
PathOf(t) == NormalizeFilePath(op[t].lpFileName[1])

HoldsEntryLock(t, i) == t \in locks[i].shared \/ locks[i].exclusive = t

HoldsNoLock(t) ==
    /\ m_INIMapCS # t
    /\ \A i \in 1..Len(locks) : ~HoldsEntryLock(t, i)

\* t is blocked at the map lock, which u holds.
WaitsForMap(t, u) == pc[t] = "lookup" /\ u # t /\ m_INIMapCS = u

\* t is blocked at its entry's lock, which u holds in a conflicting mode.
WaitsForEntry(t, u) ==
    /\ pc[t] = "lock" /\ u # t
    /\ \/ locks[ref[t]].exclusive = u
       \/ op[t].kind = "WriteString" /\ u \in locks[ref[t]].shared

\* t is inside the locked part of a handler of the given kind.
Inside(t, kind) == pc[t] = "body" /\ op[t].kind = kind


\* ------------------------------------------------------------ claims
\* Thread t's call of the given kind passed validation and has returned.
Returned(t, kind) == pc[t] = "done" /\ op[t].kind = kind /\ lastError[t] = "none"

Keys(ini, section) == IF section \in DOMAIN ini THEN DOMAIN ini[section] ELSE {}

\* Every (section, key) other than (section, key) reads the same in a and b.
SameElsewhere(a, b, section, key) ==
    \A s2 \in DOMAIN a \cup DOMAIN b :
        \A k2 \in Keys(a, s2) \cup Keys(b, s2) :
            <<s2, k2>> # <<section, key>> => QueryValue(a, s2, k2) = QueryValue(b, s2, k2)

\* The document looked up the way the read handlers look a name up.
ReadLookup(ini, o) ==
    QueryValue(ini, EncodingTo(o.appName[1], o.w, converter),
                    EncodingTo(o.keyName[1], o.w, converter))

\* The buffer of thread t holds value in full, terminated, and the call
\* returned its length.
ReadGave(t, value) ==
    /\ ret[t] = Len(value)
    /\ \A i \in 1..Len(value) : buf[t][1][i] = value[i]
    /\ buf[t][1][Len(value) + 1] = 0

\* The read call o addresses the key the write call wo set.
SameKey(o, wo) == wo.w = o.w /\ wo.appName = o.appName /\ wo.keyName = o.keyName

\* C1: a successful WriteString(section, key, value, path) followed by a
\* ReadString of the same (section, key, path) into a buffer large enough,
\* with no write to the path in between, puts exactly value in the buffer
\* and returns its length, whatever calls came before the write.
C1_WriteThenReadRoundTrip ==
    \A t \in Threads :
        ( /\ Returned(t, "GetString")
          /\ sawSet[t] # Null
          /\ sawSet[t][1].began # Null
          /\ sawSet[t][1].ran = sawSet[t][1].began
          /\ SameKey(op[t], sawSet[t][1].began[1])
          /\ op[t].nSize >= Len(sawSet[t][1].began[1].lpString[1]) + 1 ) =>
            ReadGave(t, sawSet[t][1].began[1].lpString[1])

\* C2: when two threads have each written a different value to the same key
\* of the same path and both have returned, a ReadString of that key returns
\* one of the values written to it, in full.
C2_ReadSeesOneWrittenValue ==
    \A t \in Threads :
        ( /\ Returned(t, "GetString")
          /\ sawSet[t] # Null
          /\ \E x, y \in sawSet[t][1].writers :
                /\ x[1] # y[1]
                /\ x[2].lpString # y[2].lpString
                /\ SameKey(op[t], x[2]) /\ SameKey(op[t], y[2]) ) =>
            \E x \in wrote[PathOf(t)] :
                SameKey(op[t], x[2]) /\ ReadGave(t, x[2].lpString[1])

C4_WriterExcludesOthers ==
    /\ \A t, u \in Threads :
          (Inside(t, "WriteString") /\ u # t /\ pc[u] = "body") => ref[u] # ref[t]
    /\ \A i \in 1..Len(locks) :
          /\ locks[i].shared = {t \in Threads : Inside(t, "GetString") /\ ref[t] = i}
          /\ \A t \in Threads :
                locks[i].exclusive = t <=> (Inside(t, "WriteString") /\ ref[t] = i)

\* C4's case: a writer is inside an entry and a reader of the same entry is
\* held at its lock.
C4_Witness ==
    \E t, u \in Threads :
        /\ Inside(t, "WriteString")
        /\ pc[u] = "lock" /\ op[u].kind = "GetString" /\ ref[u] = ref[t]

C6_NoLockInversionEveryCallReturns ==
    /\ [](\A t \in Threads :
             /\ pc[t] \in {"lookup", "inmap", "load"} =>
                   \A i \in 1..Len(locks) : ~HoldsEntryLock(t, i)
             /\ pc[t] \in {"idle", "done"} => HoldsNoLock(t))
    /\ \A t \in Threads : (pc[t] # "idle") ~> (pc[t] = "done" /\ HoldsNoLock(t))

\* C6's case: one thread holds an entry lock while the other holds the map
\* lock.
C6_Witness ==
    \E t, u \in Threads :
        /\ pc[t] = "body"
        /\ \E i \in 1..Len(locks) : HoldsEntryLock(t, i)
        /\ m_INIMapCS = u /\ u # t

\* C7: ReadString in read-value mode, stored value of length L, capacity
\* C >= 2: when C >= L+1 it returns L and the buffer holds the value and a
\* terminator; when L >= C it returns C-1 and the buffer holds the first
\* C-1 characters and a terminator at index C-1.
C7_ReadValueFitsOrTruncates ==
    \A t \in Threads :
        (Returned(t, "GetString") /\ ReadLookup(before[t][1].ini, op[t]) # Null) =>
            LET value == EncodingFrom(ReadLookup(before[t][1].ini, op[t])[1],
                                      op[t].w, converter)
                L == Len(value)
                C == op[t].nSize
                b == buf[t][1]
            IN  IF C >= L + 1
                THEN /\ ret[t] = L
                     /\ \A i \in 1..L : b[i] = value[i]
                     /\ b[L + 1] = 0
                ELSE /\ ret[t] = C - 1
                     /\ \A i \in 1..(C - 1) : b[i] = value[i]
                     /\ b[C] = 0

\* C7's case: a stored value at least as long as the capacity was read.
C7_Witness ==
    \E t \in Threads :
        /\ Returned(t, "GetString")
        /\ ReadLookup(before[t][1].ini, op[t]) # Null
        /\ Len(ReadLookup(before[t][1].ini, op[t])[1]) >= op[t].nSize
        /\ ret[t] = op[t].nSize - 1

\* C8: WriteString with a key and a null value deletes only that key: the
\* key is not found afterwards, every other key of every section reads as
\* before, and no section appears or disappears.
C8_DeleteKeyOnly ==
    \A t \in Threads :
        (Returned(t, "WriteString") /\ op[t].keyName # Null /\ op[t].lpString = Null) =>
            LET b == before[t][1].ini
                a == configs[ref[t]].ini
                s == EncodingTo(op[t].appName[1], op[t].w, converter)
                k == EncodingTo(op[t].keyName[1], op[t].w, converter)
            IN  /\ QueryValue(a, s, k) = Null
                /\ SameElsewhere(a, b, s, k)
                /\ DOMAIN a = DOMAIN b

\* C8's case: an existing key was deleted from a section that has another
\* key, in a document that has another section.
C8_Witness ==
    \E t \in Threads :
        /\ Returned(t, "WriteString") /\ op[t].keyName # Null /\ op[t].lpString = Null
        /\ memOk[t]
        /\ ReadLookup(before[t][1].ini, op[t]) # Null
        /\ LET s == EncodingTo(op[t].appName[1], op[t].w, converter)
           IN  /\ Cardinality(Keys(before[t][1].ini, s)) >= 2
               /\ Cardinality(Keys(configs[ref[t]].ini, s)) >= 1
               /\ Cardinality(DOMAIN configs[ref[t]].ini) >= 2

\* C9: WriteString selects its mode by nullability.  A null key deletes the
\* section: none of its keys is found afterwards and the other sections are
\* as before.  A key with a null value deletes that key.  Otherwise the
\* readers find value at (section, key) afterwards and everything else as
\* before.  A delete whose target does not exist returns FALSE and changes
\* neither the document nor the dirty flag.  (Stated for calls without
\* native passthrough, whose return value is the handler's own.)
C9_ModeByNullability ==
    \A t \in Threads :
        (Returned(t, "WriteString") /\ ~options.NativeWrite) =>
            LET o == op[t]
                b == before[t][1]
                a == configs[ref[t]]
                s == EncodingTo(o.appName[1], o.w, converter)
                noChange == ret[t] = 0 /\ a.ini = b.ini /\ a.changed = b.changed
            IN  IF o.keyName = Null
                THEN /\ s \notin DOMAIN a.ini
                     /\ \A s2 \in (DOMAIN a.ini \cup DOMAIN b.ini) \ {s} :
                            s2 \in DOMAIN a.ini /\ s2 \in DOMAIN b.ini /\ a.ini[s2] = b.ini[s2]
                     /\ s \notin DOMAIN b.ini => noChange
                ELSE LET k == EncodingTo(o.keyName[1], o.w, converter)
                     IN  IF o.lpString = Null
                         THEN /\ QueryValue(a.ini, s, k) = Null
                              /\ SameElsewhere(a.ini, b.ini, s, k)
                              /\ QueryValue(b.ini, s, k) = Null => noChange
                         ELSE /\ QueryValue(a.ini, s, k)
                                    = Ptr(EncodingTo(o.lpString[1], o.w, converter))
                              /\ SameElsewhere(a.ini, b.ini, s, k)

\* C10: WriteString of the value the readers find stored for (section, key)
\* succeeds (returns TRUE when the return value is the handler's own),
\* leaves the document and the dirty flag as they were, and saves nothing,
\* whatever the SaveOnWrite policy.
C10_SameValueIsNoOp ==
    \A t \in Threads :
        ( /\ Returned(t, "WriteString")
          /\ op[t].keyName # Null /\ op[t].lpString # Null
          /\ ReadLookup(before[t][1].ini, op[t])
                = Ptr(EncodingTo(op[t].lpString[1], op[t].w, converter)) ) =>
            /\ memOk[t]
            /\ ~options.NativeWrite => ret[t] = 1
            /\ configs[ref[t]].changed = before[t][1].changed
            /\ configs[ref[t]].ini = before[t][1].ini
            /\ saved[t] = 0

\* The entry obj holds what its file holds (no file: the empty document).
SameAsFile(obj) ==
    IF disk[obj.path] = Null
    THEN obj.ini = EmptyINI /\ ~obj.existOnDisk
    ELSE obj.ini = disk[obj.path][1]

\* Thread t's write call has returned and changed its entry's document.
ChangedDocument(t) ==
    Returned(t, "WriteString") /\ configs[ref[t]].ini # before[t][1].ini

MaxSaveCalls == 3

\* The registry-wide flush as a call: ioOk[i] tells whether writing entry
\* i's file works this time.
SaveOp(ioOk) ==
    [kind |-> "SaveChangedFiles", w |-> "W", appName |-> Null, keyName |-> Null,
     lpString |-> Null, lpReturnedString |-> Null, nSize |-> 0, lpFileName |-> Null,
     ioOk |-> ioOk]

\* SaveChnagedFiles: SaveFile on every entry that is changed.
SaveChnagedFiles(t, ioOk) ==
    LET flushed(i) == IF configs[i].changed
                      THEN SaveFile(configs[i], disk, ioOk[i])
                      ELSE [obj |-> configs[i], disk |-> disk, saved |-> 0]
    IN  /\ pc[t] = "idle"
        /\ pc' = [pc EXCEPT ![t] = "done"]
        /\ calls' = [calls EXCEPT ![t] = @ + 1]
        /\ op' = [op EXCEPT ![t] = SaveOp(ioOk)]
        /\ before' = [before EXCEPT ![t] = Ptr(configs)]
        /\ configs' = [i \in 1..Len(configs) |-> flushed(i).obj]
        /\ disk' = [p \in DOMAIN disk |->
                       IF \E i \in 1..Len(configs) : configs[i].path = p
                       THEN flushed(CHOOSE i \in 1..Len(configs) :
                                       configs[i].path = p).disk[p]
                       ELSE disk[p]]
        /\ saved' = [saved EXCEPT ![t] =
                        Cardinality({i \in 1..Len(configs) : configs[i].changed})]
        /\ UNCHANGED <<converter, m_Functions, options, m_INIMap, m_INIMapCS, locks, ref, buf, ret,
                       lastError, memOk, native, lastSet, wrote, sawSet>>

\* Narrow writes that set or delete one key of two files.
SaveWriteOps ==
    {WriteOp("A", Ptr(<<1>>), Ptr(<<1>>), v, Ptr(f)) :
        v \in {Null, Ptr(Text(1, "A"))}, f \in NormPaths}

\* Reads of the same key, with and without a default that fits.
SaveReadOps ==
    {GetStringOp("A", Ptr(<<1>>), Ptr(<<1>>), d, 2, Ptr(f)) :
        d \in {Null, Ptr(<<2>>)}, f \in NormPaths}

NextSave ==
    \/ /\ calls[1] < MaxSaveCalls
       /\ \E o \in SaveWriteOps : WriteStringT(1, o)
    \/ /\ calls[1] < MaxSaveCalls
       /\ \E o \in SaveReadOps : GetStringT(1, o)
    \/ /\ calls[1] < MaxSaveCalls
       /\ \E ioOk \in [1..Len(configs) -> BOOLEAN] : SaveChnagedFiles(1, ioOk)
    \/ Return(1)

SpecSave == Init /\ [][NextSave]_vars

\* Thread t's SaveChnagedFiles call has completed.
Flushed(t) == pc[t] = "done" /\ op[t].kind = "SaveChangedFiles"

\* C12: a WriteString whose save left the entry dirty (the save failed)
\* still holds the written document and reports the in-memory result; an
\* entry a save left clean is in its file. After SaveChnagedFiles no
\* document has changed, an entry is dirty exactly when it was dirty and
\* its save failed, every saved entry is in its file: with no failure no
\* entry is dirty, and a dirty entry left by a failed save is saved by a
\* later SaveChnagedFiles whose write works.
C12_FailedSaveKeepsDirty ==
    \A t \in Threads :
        /\ (Returned(t, "WriteString") /\ saved[t] = 1) =>
              LET obj == configs[ref[t]]
                  m == WriteStringToMemoryFile(before[t][1].ini, op[t], converter)
              IN  /\ obj.ini = m.ini
                  /\ memOk[t] = m.success /\ m.success
                  /\ ~options.NativeWrite => ret[t] = 1
                  /\ obj.changed \/ disk[obj.path] = Ptr(obj.ini)
        /\ Flushed(t) =>
              /\ Len(configs) = Len(before[t][1])
              /\ \A i \in 1..Len(configs) :
                    LET b == before[t][1][i]
                        a == configs[i]
                    IN  /\ a.ini = b.ini /\ a.path = b.path
                        /\ a.changed = (b.changed /\ ~op[t].ioOk[i])
                        /\ (b.changed /\ op[t].ioOk[i]) =>
                               disk[a.path] = Ptr(a.ini) /\ a.existOnDisk
              /\ (\A i \in 1..Len(configs) : op[t].ioOk[i]) =>
                    \A i \in 1..Len(configs) : ~configs[i].changed

\* C12's case: under SaveOnWrite an entry was dirty (its save had failed)
\* when SaveChnagedFiles ran, and is now clean and in its file.
C12_Witness ==
    \E t \in Threads :
        /\ Flushed(t)
        /\ options.SaveOnWrite /\ ~options.NativeWrite
        /\ \E i \in 1..Len(configs) :
              /\ before[t][1][i].changed
              /\ ~configs[i].changed
              /\ disk[configs[i].path] = Ptr(configs[i].ini)

\* The entry LoadFile makes of a missing file.
EmptyEntry(path) ==
    [path |-> path, ini |-> EmptyINI, changed |-> FALSE, existOnDisk |-> FALSE]

\* This step is thread t's whole call of a string handler with valid
\* arguments.
CallStep(t) ==
    /\ pc[t] = "idle" /\ pc'[t] = "done"
    /\ op'[t].kind \in {"WriteString", "GetString"}
    /\ Validate(op'[t]) = "ok"

\* C13: a call for a path whose file is missing does not fail because of
\* it: the entry is created with an empty document and existOnDisk false,
\* a read of it gives the default or the empty string, a set succeeds; an
\* entry that exists is used as it is and never loaded again; and a file
\* that was missing exists only after a save of its entry, holding the
\* saved document.
C13_MissingFileLoadsEmptyOnce ==
    /\ [](\A t \in Threads :
            /\ (pc[t] = "done" /\ op[t].kind \in {"WriteString", "GetString"}
                  /\ Validate(op[t]) = "ok") =>
                  /\ lastError[t] = "none"
                  /\ ref[t] \in 1..Len(configs)
                  /\ configs[ref[t]].path = NormalizeFilePath(op[t].lpFileName[1])
            /\ (Returned(t, "GetString") /\ before[t][1].ini = EmptyINI) =>
                  IF op[t].lpString = Null
                  THEN ret[t] = 0 /\ buf[t][1][1] = 0
                  ELSE /\ ret[t] = Len(op[t].lpString[1])
                       /\ Chars(buf[t][1], 1, ret[t] + 1) = op[t].lpString[1] \o <<0>>
            /\ (Returned(t, "WriteString") /\ before[t][1].ini = EmptyINI
                  /\ op[t].keyName # Null /\ op[t].lpString # Null) => memOk[t]
            /\ \A i \in 1..Len(configs) :
                  IF configs[i].existOnDisk
                  THEN disk[configs[i].path] # Null
                  ELSE disk[configs[i].path] = Null)
    /\ [][\A t \in Threads :
            CallStep(t) =>
               LET p == NormalizeFilePath(op'[t].lpFileName[1])
               IN  IF p \in DOMAIN m_INIMap
                   THEN /\ m_INIMap' = m_INIMap
                        /\ Len(configs') = Len(configs)
                        /\ before'[t] = Ptr(configs[m_INIMap[p]])
                   ELSE /\ Len(configs') = Len(configs) + 1
                        /\ m_INIMap'[p] = Len(configs) + 1
                        /\ disk[p] = Null => before'[t] = Ptr(EmptyEntry(p))
                        /\ disk[p] # Null =>
                              before'[t] = Ptr([EmptyEntry(p) EXCEPT
                                                   !.ini = disk[p][1],
                                                   !.existOnDisk = TRUE])]_vars

\* C13's case: the entry of the file that was missing was written and
\* saved, which created the file, and a later read used the entry as it was.
C13_Witness ==
    \E t \in Threads :
        /\ Returned(t, "GetString")
        /\ InitialDisk[configs[ref[t]].path] = Null
        /\ before[t][1].ini # EmptyINI
        /\ before[t][1].existOnDisk /\ ~before[t][1].changed
        /\ disk[configs[ref[t]].path] = Ptr(before[t][1].ini)

\* ---------------------------------------------------------- enumeration
MaxEnumSize == 6
MaxEnumCalls == 2

\* The orders in which a document can hold the names of the set S.
Orders(S) ==
    {q \in [1..Cardinality(S) -> S] : \A x \in S : \E i \in 1..Cardinality(S) : q[i] = x}

\* The first k items, each followed by its terminator.
RECURSIVE Flatten(_, _)
Flatten(items, k) ==
    IF k = 0 THEN <<>> ELSE Flatten(items, k - 1) \o items[k] \o <<0>>

\* The number of leading items that fit in maxSize characters together
\* with the list's final terminator.
RECURSIVE Fitting(_, _, _)
Fitting(items, k, maxSize) ==
    IF k < Len(items) /\ Len(Flatten(items, k + 1)) + 1 <= maxSize
    THEN Fitting(items, k + 1, maxSize)
    ELSE k

\* A list builder that takes every item, whatever the capacity.
CreateZSSTRZZ_NoLimit(items, maxSize) ==
    [list |-> Flatten(items, Len(items)) \o <<0>>,
     truncated |-> FALSE,
     count |-> Len(items)]

\* A list builder that gives the empty string when there is no item.
CreateZSSTRZZ_EmptyWithoutTerminator(items, maxSize) ==
    LET k == Fitting(items, 0, maxSize)
    IN  [list |-> IF k = 0 THEN <<>> ELSE Flatten(items, k) \o <<0>>,
         truncated |-> k < Len(items),
         count |-> k]

\* The list builder behind GetSectionNamesZSSTRZZ / GetKeyNamesZSSTRZZ:
\* whole items while they fit, then the extra terminator.
CreateZSSTRZZ(items, maxSize) ==
    LET k == Fitting(items, 0, maxSize)
    IN  [list |-> Flatten(items, k) \o <<0>>,
         truncated |-> k < Len(items),
         count |-> k]

\* The names an enumerating call lists: sections, or the keys of appName.
EnumNames(ini, o, cp) ==
    IF o.appName = Null THEN DOMAIN ini
    ELSE Keys(ini, EncodingTo(o.appName[1], o.w, cp))

\* GetStringT, lines 171-234: the list of names in the document's order,
\* in the caller's character type, copied to the caller's buffer.
GetStringEnum(o, cp, order) ==
    LET items == [i \in 1..Len(order) |-> EncodingFrom(order[i], o.w, cp)]
        names == CreateZSSTRZZ(items, o.nSize)
        c == StringCopyBuffer(o.lpReturnedString, o.nSize, Ptr(names.list), Len(names.list))
    IN  [buf |-> c.dst,
         result |-> IF c.hr = "STRSAFE_E_INSUFFICIENT_BUFFER" \/ names.truncated
                    THEN ToUINT(o.nSize - 2) ELSE ToUINT(Len(names.list) - 1)]

\* An enumerating call: the buffer is one character longer than the
\* capacity passed, order is the order the document holds the names in.
EnumOp(w, a, n, f, order) ==
    [kind |-> "GetString", w |-> w, appName |-> a, keyName |-> Null, lpString |-> Null,
     lpReturnedString |-> Ptr(Stale(n + 1)), nSize |-> n, lpFileName |-> f,
     order |-> order]

\* GetStringT from entry to return, enumerating sections or keys.
GetStringT_Enumerate(t, w, a, n, f) ==
    LET g == GetOrLoadFile(m_INIMap, configs, disk, f)
        obj == g.configs[g.idx]
    IN  \E order \in Orders(EnumNames(obj.ini, EnumOp(w, a, n, Ptr(f), <<>>), converter)) :
          LET o == EnumOp(w, a, n, Ptr(f), order)
              r == GetStringEnum(o, converter, order)
          IN  /\ pc[t] = "idle"
              /\ GetStringValidate(o) = "ok"
              /\ pc' = [pc EXCEPT ![t] = "done"]
              /\ calls' = [calls EXCEPT ![t] = @ + 1]
              /\ op' = [op EXCEPT ![t] = o]
              /\ lastError' = [lastError EXCEPT ![t] = "none"]
              /\ m_INIMap' = g.map
              /\ configs' = g.configs
              /\ locks' = LocksFor(g.configs)
              /\ ref' = [ref EXCEPT ![t] = g.idx]
              /\ before' = [before EXCEPT ![t] = Ptr(obj)]
              /\ buf' = [buf EXCEPT ![t] = r.buf]
              /\ ret' = [ret EXCEPT ![t] = r.result]
              /\ UNCHANGED <<converter, m_Functions, options, disk, m_INIMapCS, memOk, saved, native,
                             lastSet, wrote, sawSet>>

\* Writes that add a key and a section with two-character names.
EnumWriteOps ==
    {WriteOp(w, Ptr(a), Ptr(<<2, 1>>), Ptr(<<1>>), Ptr("a.ini")) :
        w \in Widths, a \in {<<1>>, <<1, 2>>}}

NextEnum ==
    \/ /\ calls[1] < MaxEnumCalls
       /\ \E o \in EnumWriteOps : WriteStringT(1, o)
    \/ /\ calls[1] < MaxEnumCalls
       /\ \E w \in Widths, a \in {Null, Ptr(<<1>>), Ptr(<<2>>)}, n \in 2..MaxEnumSize :
             GetStringT_Enumerate(1, w, a, n, "a.ini")
    \/ Return(1)

SpecEnum == Init /\ [][NextEnum]_vars

\* Thread t's enumerating read has returned.
Enumerated(t) ==
    Returned(t, "GetString") /\ (op[t].appName = Null \/ op[t].keyName = Null)

\* The items of thread t's enumeration, as the caller's characters.
EnumItems(t) ==
    [i \in 1..Len(op[t].order) |-> EncodingFrom(op[t].order[i], op[t].w, converter)]

\* The whole list of thread t's enumeration does not fit its capacity.
ListTooLong(t) == Len(Flatten(EnumItems(t), Len(EnumItems(t)))) + 1 > op[t].nSize

\* C14: after an enumeration whose whole list does not fit, the first
\* nSize characters of the buffer are some leading items of the list, each
\* whole and terminated, then the extra terminator (and zeros up to nSize);
\* the characters from nSize on are untouched.
C14_TruncatedListHasWholeItems ==
    \A t \in Threads :
        (Enumerated(t) /\ ListTooLong(t)) =>
            \E k \in 0..(Len(EnumItems(t)) - 1) :
                LET head == Flatten(EnumItems(t), k)
                IN  /\ Len(head) + 1 <= op[t].nSize
                    /\ Chars(buf[t][1], 1, op[t].nSize)
                          = head \o [i \in 1..(op[t].nSize - Len(head)) |-> 0]
                    /\ Chars(buf[t][1], op[t].nSize + 1, Len(buf[t][1]))
                          = Chars(op[t].lpReturnedString[1], op[t].nSize + 1,
                                   Len(buf[t][1]))

\* C14's case: a list was cut after its first item, which is in the buffer
\* whole, and the next item would have fit in part.
C14_Witness ==
    \E t \in Threads :
        /\ Enumerated(t) /\ ListTooLong(t)
        /\ Len(EnumItems(t)) >= 2
        /\ Chars(buf[t][1], 1, Len(EnumItems(t)[1]) + 2) = EnumItems(t)[1] \o <<0, 0>>
        /\ Len(EnumItems(t)[1]) + 2 < op[t].nSize
        /\ ret[t] = op[t].nSize - 2

\* ------------------------------------------- StringCopyBuffer on its own
MaxCopySize == 3
MaxCopyLen == 3

\* A call of StringCopyBuffer: the destination is Null or a buffer one
\* character longer than dstSize holding anything; the source is Null or
\* srcSize characters, zeros included.
CopyOps ==
    {[kind |-> "StringCopyBuffer", dst |-> d, dstSize |-> n, src |-> s, srcSize |-> l] :
        n \in 0..MaxCopySize, l \in 0..MaxCopyLen,
        d \in {Null} \cup {Ptr(x) : x \in UNION {[1..(k + 1) -> {0, 9}] : k \in 0..MaxCopySize}},
        s \in {Null} \cup {Ptr(x) : x \in UNION {[1..k -> {0, 1}] : k \in 0..MaxCopyLen}}}

\* The calls whose buffers have the sizes passed.
WellSizedCopyOps ==
    {o \in CopyOps : /\ o.dst # Null => Len(o.dst[1]) = o.dstSize + 1
                     /\ o.src # Null => Len(o.src[1]) = o.srcSize}

InitCopy ==
    /\ converter = "cp1"
    /\ options = [SaveOnWrite |-> FALSE, NativeWrite |-> FALSE]
    /\ m_INIMap = <<>>
    /\ configs = <<>>
    /\ disk = InitialDisk
    /\ m_INIMapCS = 0
    /\ locks = <<>>
    /\ pc = [t \in Threads |-> "idle"]
    /\ op \in [Threads -> WellSizedCopyOps \cup {NoOp}]
    /\ op[1] \in WellSizedCopyOps /\ op[2] = NoOp
    /\ ref = [t \in Threads |-> 0]
    /\ buf = [t \in Threads |-> Null]
    /\ ret = [t \in Threads |-> 0]
    /\ lastError = [t \in Threads |-> "none"]
    /\ memOk = [t \in Threads |-> FALSE]
    /\ saved = [t \in Threads |-> 0]
    /\ native = [t \in Threads |-> Null]
    /\ before = [t \in Threads |-> Null]
    /\ calls = [t \in Threads |-> 0]
    /\ lastSet = [p \in NormPaths |-> Null]
    /\ wrote = [p \in NormPaths |-> {}]
    /\ sawSet = [t \in Threads |-> Null]
    /\ m_Functions = FunctionsInUse

\* Thread t calls StringCopyBuffer with the arguments in op[t]: buf is the
\* destination afterwards, ret the copied count, lastError the HRESULT.
StringCopyBufferCall(t) ==
    LET c == StringCopyBuffer(op[t].dst, op[t].dstSize, op[t].src, op[t].srcSize)
    IN  /\ pc[t] = "idle"
        /\ op[t].kind = "StringCopyBuffer"
        /\ pc' = [pc EXCEPT ![t] = "done"]
        /\ buf' = [buf EXCEPT ![t] = c.dst]
        /\ ret' = [ret EXCEPT ![t] = c.copiedSize]
        /\ lastError' = [lastError EXCEPT ![t] = c.hr]
        /\ UNCHANGED <<converter, m_Functions, options, m_INIMap, configs, disk, m_INIMapCS, locks, op,
                       ref, memOk, saved, native, before, calls, lastSet, wrote, sawSet>>

NextCopy == StringCopyBufferCall(1)

SpecCopy == InitCopy /\ [][NextCopy]_vars

\* Thread t's StringCopyBuffer call has returned.
Copied(t) == pc[t] = "done" /\ op[t].kind = "StringCopyBuffer"

\* C15: StringCopyBuffer gives InvalidArgument for a null destination or
\* source; else with n = min(dstSize, srcSize): success and count 0 when
\* n = 0; success with the source followed by a terminator when dstSize >
\* srcSize; success with the source as it is when dstSize = srcSize and the
\* source ends in zero; otherwise the first dstSize - 1 source characters,
\* a zero in the last writable place, and InsufficientBuffer.
C15_CopyResultByCase ==
    \A t \in Threads :
        Copied(t) =>
            LET o == op[t]
                n == Min(o.dstSize, o.srcSize)
            IN  IF o.dst = Null \/ o.src = Null
                THEN lastError[t] = "STRSAFE_E_INVALID_PARAMETER" /\ buf[t] = o.dst
                ELSE IF n = 0
                THEN lastError[t] = "S_OK" /\ ret[t] = 0
                ELSE IF o.dstSize > o.srcSize
                THEN /\ lastError[t] = "S_OK"
                     /\ Chars(buf[t][1], 1, o.srcSize + 1) = o.src[1] \o <<0>>
                ELSE IF o.dstSize = o.srcSize /\ o.src[1][o.srcSize] = 0
                THEN /\ lastError[t] = "S_OK"
                     /\ Chars(buf[t][1], 1, o.dstSize) = o.src[1]
                ELSE /\ lastError[t] = "STRSAFE_E_INSUFFICIENT_BUFFER"
                     /\ Chars(buf[t][1], 1, o.dstSize)
                           = Chars(o.src[1], 1, o.dstSize - 1) \o <<0>>

\* C15's case: an exact fit of a source that ends in zero succeeded.
C15_Witness ==
    \E t \in Threads :
        /\ Copied(t)
        /\ op[t].dst # Null /\ op[t].src # Null
        /\ op[t].dstSize = op[t].srcSize /\ op[t].srcSize >= 2
        /\ op[t].src[1][1] # 0 /\ op[t].src[1][op[t].srcSize] = 0
        /\ lastError[t] = "S_OK"
        /\ ret[t] = op[t].srcSize

\* C16: after StringCopyBuffer with non-null pointers and dstSize >= 1 the
\* characters from dstSize on are as before, some character below dstSize
\* is zero, and every character from the end of the copied region to
\* dstSize is zero.
C16_CopyStaysInCapacity ==
    \A t \in Threads :
        (Copied(t) /\ op[t].dst # Null /\ op[t].src # Null /\ op[t].dstSize >= 1) =>
            LET o == op[t]
                dst == buf[t][1]
            IN  /\ Len(dst) = Len(o.dst[1])
                /\ \A i \in (o.dstSize + 1)..Len(dst) : dst[i] = o.dst[1][i]
                /\ \E i \in 1..o.dstSize : dst[i] = 0
                /\ \A i \in (ret[t] + 1)..o.dstSize : dst[i] = 0

\* C16's case: a short source was copied into a longer buffer that held
\* non-zero characters, and a non-zero character lies beyond dstSize.
C16_Witness ==
    \E t \in Threads :
        /\ Copied(t) /\ op[t].dst # Null /\ op[t].src # Null
        /\ op[t].srcSize >= 1 /\ op[t].dstSize >= op[t].srcSize + 2
        /\ \A i \in 1..Len(op[t].dst[1]) : op[t].dst[1][i] = 9
        /\ op[t].src[1][1] = 1
        /\ buf[t][1][op[t].dstSize] = 0
        /\ buf[t][1][op[t].dstSize + 1] = 9

\* --------------------------------------------- ReadInt and ReadSection
\* Characters of numbers and of key=value items.
MinusSign == 6
DigitOne == 7
DigitTwo == 8
EqualsSign == 10

IsDigit(c) == c \in {DigitOne, DigitTwo}

\* The number a text of digits denotes.
RECURSIVE DigitsValue(_)
DigitsValue(s) ==
    IF s = <<>> THEN 0
    ELSE 10 * DigitsValue([i \in 1..(Len(s) - 1) |-> s[i]]) + (s[Len(s)] - DigitOne + 1)

\* String::ToInteger<INT>: Ptr(number) for an optional minus sign followed
\* by digits, Null for any other text.
ToInteger(s) ==
    LET digits == IF s # <<>> /\ s[1] = MinusSign
                  THEN [i \in 1..(Len(s) - 1) |-> s[i + 1]] ELSE s
    IN  IF digits # <<>> /\ \A i \in 1..Len(digits) : IsDigit(digits[i])
        THEN Ptr(IF s[1] = MinusSign THEN 0 - DigitsValue(digits) ELSE DigitsValue(digits))
        ELSE Null

\* GetIntT, lines 288-297.
GetIntValidate(o) ==
    IF o.lpFileName = Null THEN "ERROR_FILE_NOT_FOUND"
    ELSE IF o.appName = Null \/ o.keyName = Null THEN "ERROR_INVALID_PARAMETER"
    ELSE "ok"

\* GetIntT that returns the default for negative numbers.
GetIntValue_NoNegatives(ini, o, cp) ==
    LET value == QueryValue(ini, EncodingTo(o.appName[1], o.w, cp),
                                 EncodingTo(o.keyName[1], o.w, cp))
    IN  IF value # Null /\ ToInteger(value[1]) # Null /\ ToInteger(value[1])[1] >= 0
        THEN ToUINT(ToInteger(value[1])[1])
        ELSE ToUINT(o.defaultValue)

\* GetIntT, lines 305-320: the stored value as an integer, else the default.
GetIntValue(ini, o, cp) ==
    LET value == QueryValue(ini, EncodingTo(o.appName[1], o.w, cp),
                                 EncodingTo(o.keyName[1], o.w, cp))
    IN  IF value # Null /\ ToInteger(value[1]) # Null
        THEN ToUINT(ToInteger(value[1])[1])
        ELSE ToUINT(o.defaultValue)

\* GetSectionT, lines 335-349.
GetSectionValidate(o) ==
    IF o.lpFileName = Null THEN "ERROR_FILE_NOT_FOUND"
    ELSE IF o.appName = Null THEN "ERROR_INVALID_PARAMETER"
    ELSE IF o.lpReturnedString = Null \/ o.nSize < 2 THEN "ERROR_INSUFFICIENT_BUFFER"
    ELSE "ok"

\* A block read that counts the list's extra terminator in its result.
GetSectionValue_CountsTerminator(ini, o, cp, order) ==
    LET sectionName == EncodingTo(o.appName[1], o.w, cp)
        found == SelectSeq(order, LAMBDA k : QueryValue(ini, sectionName, k) # Null)
        items == [i \in 1..Len(found) |->
                     EncodingFrom(found[i], o.w, cp) \o <<EqualsSign>>
                        \o EncodingFrom(QueryValue(ini, sectionName, found[i])[1], o.w, cp)]
        keyValuePairs == CreateZSSTRZZ(items, o.nSize)
        c == StringCopyBuffer(o.lpReturnedString, o.nSize,
                              Ptr(keyValuePairs.list), Len(keyValuePairs.list))
    IN  [buf |-> c.dst,
         result |-> IF c.hr = "STRSAFE_E_INSUFFICIENT_BUFFER" \/ keyValuePairs.truncated
                    THEN ToUINT(o.nSize - 2) ELSE ToUINT(Len(keyValuePairs.list))]

\* GetSectionT, lines 360-395: key=value items of the section, in the
\* document's key order, each value queried anew.
GetSectionValue(ini, o, cp, order) ==
    LET sectionName == EncodingTo(o.appName[1], o.w, cp)
        found == SelectSeq(order, LAMBDA k : QueryValue(ini, sectionName, k) # Null)
        items == [i \in 1..Len(found) |->
                     EncodingFrom(found[i], o.w, cp) \o <<EqualsSign>>
                        \o EncodingFrom(QueryValue(ini, sectionName, found[i])[1], o.w, cp)]
        keyValuePairs == CreateZSSTRZZ(items, o.nSize)
        c == StringCopyBuffer(o.lpReturnedString, o.nSize,
                              Ptr(keyValuePairs.list), Len(keyValuePairs.list))
    IN  [buf |-> c.dst,
         result |-> IF c.hr = "STRSAFE_E_INSUFFICIENT_BUFFER" \/ keyValuePairs.truncated
                    THEN ToUINT(o.nSize - 2) ELSE ToUINT(Len(keyValuePairs.list) - 1)]

GetIntOp(w, a, k, d, f) ==
    [kind |-> "GetInt", w |-> w, appName |-> a, keyName |-> k, lpString |-> Null,
     lpReturnedString |-> Null, nSize |-> 0, lpFileName |-> f, defaultValue |-> d]

\* b is the caller's buffer (or Null), n the capacity passed.
GetSectionOp(w, a, b, n, f, order) ==
    [kind |-> "GetSection", w |-> w, appName |-> a, keyName |-> Null, lpString |-> Null,
     lpReturnedString |-> b, nSize |-> n, lpFileName |-> f, order |-> order]

\* A ReadInt that leaves the entry it read marked as changed.
GetIntT_MarksChanged(t, o) ==
    LET v == GetIntValidate(o)
        g == GetOrLoadFile(m_INIMap, configs, disk, o.lpFileName[1])
        obj == g.configs[g.idx]
    IN  /\ pc[t] = "idle"
        /\ pc' = [pc EXCEPT ![t] = "done"]
        /\ calls' = [calls EXCEPT ![t] = @ + 1]
        /\ op' = [op EXCEPT ![t] = o]
        /\ lastError' = [lastError EXCEPT ![t] = IF v = "ok" THEN "none" ELSE v]
        /\ IF v = "ok"
           THEN /\ m_INIMap' = g.map
                /\ configs' = [g.configs EXCEPT ![g.idx].changed = TRUE]
                /\ locks' = LocksFor(g.configs)
                /\ ref' = [ref EXCEPT ![t] = g.idx]
                /\ before' = [before EXCEPT ![t] = Ptr(obj)]
                /\ ret' = [ret EXCEPT ![t] = GetIntValue(obj.ini, o, converter)]
           ELSE /\ UNCHANGED <<m_INIMap, configs, locks, ref, before>>
                /\ ret' = [ret EXCEPT ![t] = ToUINT(o.defaultValue)]
        /\ UNCHANGED <<converter, m_Functions, options, disk, m_INIMapCS, buf, memOk, saved, native,
                       lastSet, wrote, sawSet>>

\* GetIntT from entry to return.
GetIntT(t, o) ==
    LET v == GetIntValidate(o)
        g == GetOrLoadFile(m_INIMap, configs, disk, o.lpFileName[1])
        obj == g.configs[g.idx]
    IN  /\ pc[t] = "idle"
        /\ pc' = [pc EXCEPT ![t] = "done"]
        /\ calls' = [calls EXCEPT ![t] = @ + 1]
        /\ op' = [op EXCEPT ![t] = o]
        /\ lastError' = [lastError EXCEPT ![t] = IF v = "ok" THEN "none" ELSE v]
        /\ IF v = "ok"
           THEN /\ m_INIMap' = g.map
                /\ configs' = g.configs
                /\ locks' = LocksFor(g.configs)
                /\ ref' = [ref EXCEPT ![t] = g.idx]
                /\ before' = [before EXCEPT ![t] = Ptr(obj)]
                /\ ret' = [ret EXCEPT ![t] = GetIntValue(obj.ini, o, converter)]
           ELSE /\ UNCHANGED <<m_INIMap, configs, locks, ref, before>>
                /\ ret' = [ret EXCEPT ![t] = ToUINT(o.defaultValue)]
        /\ UNCHANGED <<converter, m_Functions, options, disk, m_INIMapCS, buf, memOk, saved, native,
                       lastSet, wrote, sawSet>>

\* GetSectionT from entry to return.
GetSectionT(t, w, a, b, n, f) ==
    LET o0 == GetSectionOp(w, a, b, n, f, <<>>)
        v == GetSectionValidate(o0)
        g == GetOrLoadFile(m_INIMap, configs, disk, f[1])
        obj == g.configs[g.idx]
    IN  \E order \in IF v = "ok" THEN Orders(EnumNames(obj.ini, o0, converter))
                                ELSE {<<>>} :
          LET o == GetSectionOp(w, a, b, n, f, order)
          IN  /\ pc[t] = "idle"
              /\ pc' = [pc EXCEPT ![t] = "done"]
              /\ calls' = [calls EXCEPT ![t] = @ + 1]
              /\ op' = [op EXCEPT ![t] = o]
              /\ lastError' = [lastError EXCEPT ![t] = IF v = "ok" THEN "none" ELSE v]
              /\ IF v = "ok"
                 THEN LET r == GetSectionValue(obj.ini, o, converter, order)
                      IN  /\ m_INIMap' = g.map
                          /\ configs' = g.configs
                          /\ locks' = LocksFor(g.configs)
                          /\ ref' = [ref EXCEPT ![t] = g.idx]
                          /\ before' = [before EXCEPT ![t] = Ptr(obj)]
                          /\ buf' = [buf EXCEPT ![t] = r.buf]
                          /\ ret' = [ret EXCEPT ![t] = r.result]
                 ELSE /\ UNCHANGED <<m_INIMap, configs, locks, ref, before>>
                      /\ buf' = [buf EXCEPT ![t] = b]
                      /\ ret' = [ret EXCEPT ![t] = 0]
              /\ UNCHANGED <<converter, m_Functions, options, disk, m_INIMapCS, memOk, saved, native,
                             lastSet, wrote, sawSet>>

\* --------------------------------- every handler on any arguments
MaxArgCalls == 2

\* Wide writes in every mode, with null and non-null section, key, value
\* and path; the values are numbers, a word and the empty text.
ArgWriteOps ==
    {WriteOp("W", a, k, v, f) :
        a \in {Null, Ptr(<<1>>)},
        k \in {Null, Ptr(<<1>>)},
        v \in {Null, Ptr(<<>>), Ptr(<<1>>), Ptr(<<DigitOne>>),
               Ptr(<<MinusSign, DigitOne>>), Ptr(<<DigitOne, DigitTwo>>)},
        f \in {Null, Ptr("a.ini")}}

\* Read-value calls for a key that exists and one that does not, with no
\* default or a default of length 0..MaxSize, a null or non-null buffer,
\* capacity 0..MaxSize, a null or non-null path.
ArgReadOps ==
    UNION {{[GetStringOp(w, Ptr(<<1>>), k, d, n, f) EXCEPT !.lpReturnedString = b] :
               k \in {Ptr(<<1>>), Ptr(<<2, 2>>)},
               d \in {Null} \cup {Ptr(Text(l, w)) : l \in 0..MaxSize},
               b \in {Null, Ptr(Stale(n))},
               f \in {Null, Ptr("a.ini")}}
           : w \in Widths, n \in 0..MaxSize}

ArgIntOps ==
    {GetIntOp(w, a, k, d, f) :
        w \in Widths,
        a \in {Null, Ptr(<<1>>)},
        k \in {Null, Ptr(<<1>>), Ptr(<<2, 2>>)},
        d \in {0 - 1, 0, 3},
        f \in {Null, Ptr("a.ini")}}

NextArgs ==
    \/ /\ calls[1] < MaxArgCalls
       /\ \E o \in ArgWriteOps : WriteStringT(1, o)
    \/ /\ calls[1] < MaxArgCalls
       /\ \E o \in ArgReadOps : GetStringT(1, o)
    \/ /\ calls[1] < MaxArgCalls
       /\ \E o \in ArgIntOps : GetIntT(1, o)
    \/ /\ calls[1] < MaxArgCalls
       /\ \E w \in Widths, a \in {Null, Ptr(<<1>>)}, n \in 0..MaxEnumSize,
            f \in {Null, Ptr("a.ini")} :
             \E b \in {Null, Ptr(Stale(n))} : GetSectionT(1, w, a, b, n, f)
    \/ Return(1)

SpecArgs == Init /\ [][NextArgs]_vars

\* Thread t's call has returned, whatever its outcome.
Done(t, kinds) == pc[t] = "done" /\ op[t].kind \in kinds

\* The buffer argument of a read cannot hold a terminated string.
BadBuffer(o) == o.lpReturnedString = Null \/ o.nSize < 2

\* What C17 says of each failed validation: a null path is FileNotFound
\* (string and section reads return 0, ReadInt the default, the in-memory
\* write fails).
NullPathIsFileNotFound(t) ==
    (Done(t, {"GetString", "GetSection", "GetInt", "WriteString"})
        /\ op[t].lpFileName = Null) =>
        /\ lastError[t] = "ERROR_FILE_NOT_FOUND"
        /\ op[t].kind \in {"GetString", "GetSection"} => ret[t] = 0
        /\ op[t].kind = "GetInt" => ret[t] = ToUINT(op[t].defaultValue)
        /\ op[t].kind = "WriteString" => ~memOk[t]

\* A call that failed validation resolved no entry and left the caller's
\* buffer as it was.
FailedCallTouchedNothing(t) ==
    (pc[t] = "done" /\ lastError[t] # "none") =>
        /\ ref[t] = 0
        /\ op[t].kind \in {"GetString", "GetSection"} => buf[t] = op[t].lpReturnedString

\* C17 as stated: a null path gives FileNotFound, and every read with a
\* path and a null buffer or a capacity below 2 gives InsufficientBuffer
\* and returns 0; a failed call touches nothing.
C17_BadBufferIsInsufficientBuffer ==
    \A t \in Threads :
        /\ NullPathIsFileNotFound(t)
        /\ (Done(t, {"GetString", "GetSection"}) /\ op[t].lpFileName # Null
              /\ BadBuffer(op[t])) =>
              lastError[t] = "ERROR_INSUFFICIENT_BUFFER" /\ ret[t] = 0
        /\ FailedCallTouchedNothing(t)

\* C17 amended: a null path gives FileNotFound; with a path, ReadSection
\* with a null section gives InvalidParameter and returns 0 whatever the
\* buffer; with a path (and, for ReadSection, a section) a null buffer or
\* a capacity below 2 gives InsufficientBuffer and returns 0. A call that
\* fails validation resolves no entry, leaves the caller's buffer alone,
\* and changes neither the registry, an entry, a lock nor a file.
C17_ValidationBeforeCache ==
    /\ [](\A t \in Threads :
            /\ NullPathIsFileNotFound(t)
            /\ (Done(t, {"GetSection"}) /\ op[t].lpFileName # Null
                  /\ op[t].appName = Null) =>
                  lastError[t] = "ERROR_INVALID_PARAMETER" /\ ret[t] = 0
            /\ (Done(t, {"GetString", "GetSection"}) /\ op[t].lpFileName # Null
                  /\ (op[t].kind = "GetSection" => op[t].appName # Null)
                  /\ BadBuffer(op[t])) =>
                  lastError[t] = "ERROR_INSUFFICIENT_BUFFER" /\ ret[t] = 0
            /\ FailedCallTouchedNothing(t))
    /\ [][\A t \in Threads :
            (pc[t] = "idle" /\ pc'[t] = "done" /\ lastError'[t] # "none") =>
                UNCHANGED <<m_INIMap, configs, locks, m_INIMapCS, disk>>]_vars

\* C17's case: a read with a capacity of 1 failed while the file's entry
\* existed; the buffer still holds what it held.
C17_Witness ==
    \E t \in Threads :
        /\ Done(t, {"GetString"})
        /\ op[t].lpFileName # Null /\ op[t].lpReturnedString # Null /\ op[t].nSize = 1
        /\ lastError[t] = "ERROR_INSUFFICIENT_BUFFER"
        /\ Len(configs) = 1
        /\ buf[t] = Ptr(Stale(1))

\* ------------------------------------------- native write passthrough
MaxNativeCalls == 2

\* WriteStringT up to line 474: validation and the in-memory write. With
\* NativeWrite the call goes on to the native call, else it returns.
WriteStringMemory(t, o) ==
    \E ioOk \in BOOLEAN :
        LET v == WriteStringValidate(o)
            g == GetOrLoadFile(m_INIMap, configs, disk, o.lpFileName[1])
            obj == g.configs[g.idx]
            w == WriteLocked(obj, o, disk, ioOk)
            memoryWriteSuccess == v = "ok" /\ w.success
        IN  /\ pc[t] = "idle"
            /\ pc' = [pc EXCEPT ![t] = IF options.NativeWrite THEN "native" ELSE "done"]
            /\ calls' = [calls EXCEPT ![t] = @ + 1]
            /\ op' = [op EXCEPT ![t] = o]
            /\ buf' = [buf EXCEPT ![t] = Null]
            /\ lastError' = [lastError EXCEPT ![t] = IF v = "ok" THEN "none" ELSE v]
            /\ memOk' = [memOk EXCEPT ![t] = memoryWriteSuccess]
            /\ IF v = "ok"
               THEN /\ m_INIMap' = g.map
                    /\ configs' = [g.configs EXCEPT ![g.idx] = w.obj]
                    /\ locks' = LocksFor(g.configs)
                    /\ disk' = w.disk
                    /\ ref' = [ref EXCEPT ![t] = g.idx]
                    /\ before' = [before EXCEPT ![t] = Ptr(obj)]
                    /\ saved' = [saved EXCEPT ![t] = w.saved]
               ELSE /\ UNCHANGED <<m_INIMap, configs, locks, disk, ref, before, saved>>
            /\ ret' = [ret EXCEPT ![t] = IF options.NativeWrite THEN 0
                                        ELSE HandlerResult(memoryWriteSuccess, 0)]
            /\ UNCHANGED <<converter, m_Functions, options, m_INIMapCS, native, lastSet, wrote, sawSet>>

\* WriteStringT, lines 476-487: the original API is invoked with the
\* handler's arguments and its result returned; native[t] records the
\* invocation and its result.
NativeCall(t) ==
    \E nativeResult \in {0, 1} :
        /\ pc[t] = "native"
        /\ pc' = [pc EXCEPT ![t] = "done"]
        /\ native' = [native EXCEPT ![t] =
                         Ptr([appName |-> op[t].appName, keyName |-> op[t].keyName,
                              lpString |-> op[t].lpString, lpFileName |-> op[t].lpFileName,
                              result |-> nativeResult])]
        /\ ret' = [ret EXCEPT ![t] = HandlerResult(memOk[t], nativeResult)]
        /\ UNCHANGED <<converter, m_Functions, options, m_INIMap, configs, disk, m_INIMapCS, locks, op,
                       ref, buf, lastError, memOk, saved, before, calls, lastSet, wrote,
                       sawSet>>

NextNative ==
    \/ /\ calls[1] < MaxNativeCalls
       /\ \E o \in ArgWriteOps : WriteStringMemory(1, o)
    \/ NativeCall(1)
    \/ Return(1)

SpecNative == Init /\ [][NextNative]_vars

\* The in-memory write of thread t's call has been applied to its entry.
MemoryWriteApplied(t) ==
    lastError[t] = "none" =>
        /\ configs[ref[t]].ini
              = WriteStringToMemoryFile(before[t][1].ini, op[t], converter).ini
        /\ memOk[t] = WriteStringToMemoryFile(before[t][1].ini, op[t], converter).success

\* C18: under NativeWrite a returned WriteString has invoked the original
\* API with its own four arguments and returns that call's result; the
\* invocation is the one step that ends the call, taken after the
\* in-memory write was applied and changing nothing of the cache. Without
\* NativeWrite the original API is never invoked and the result is TRUE
\* exactly when the in-memory write succeeded.
C18_NativeCalledOnceAfterMemory ==
    /\ [](\A t \in Threads :
            /\ Done(t, {"WriteString"}) =>
                  IF options.NativeWrite
                  THEN /\ native[t] # Null
                       /\ native[t][1].appName = op[t].appName
                       /\ native[t][1].keyName = op[t].keyName
                       /\ native[t][1].lpString = op[t].lpString
                       /\ native[t][1].lpFileName = op[t].lpFileName
                       /\ ret[t] = native[t][1].result
                       /\ MemoryWriteApplied(t)
                  ELSE /\ native[t] = Null
                       /\ ret[t] = BoolOf(memOk[t])
                       /\ MemoryWriteApplied(t)
            /\ pc[t] = "native" =>
                  options.NativeWrite /\ native[t] = Null /\ MemoryWriteApplied(t)
            /\ ~options.NativeWrite => native[t] = Null)
    /\ [][\A t \in Threads :
            (native'[t] # native[t] /\ native'[t] # Null) =>
                /\ pc[t] = "native" /\ pc'[t] = "done"
                /\ native[t] = Null
                /\ UNCHANGED <<op, configs, m_INIMap, disk, memOk>>]_vars

\* C18's case: under NativeWrite the in-memory write changed the document
\* and succeeded, the original API was invoked and failed, and the handler
\* returned FALSE.
C18_Witness ==
    \E t \in Threads :
        /\ Done(t, {"WriteString"})
        /\ options.NativeWrite
        /\ lastError[t] = "none" /\ memOk[t]
        /\ configs[ref[t]].ini # before[t][1].ini
        /\ native[t] # Null /\ native[t][1].result = 0
        /\ ret[t] = 0

\* Thread t's read-value call returned and found no value at (section, key).
ReadFoundNothing(t) ==
    /\ Returned(t, "GetString")
    /\ op[t].appName # Null /\ op[t].keyName # Null
    /\ ReadLookup(before[t][1].ini, op[t]) = Null

\* C19: a read-value call that finds nothing stores the default, cut to
\* nSize - 1 characters when it is longer, followed by a terminator, and
\* returns the number of characters stored; without a default it stores
\* the empty string and returns 0.
C19_DefaultFitsOrTruncates ==
    \A t \in Threads :
        ReadFoundNothing(t) =>
            IF op[t].lpString # Null
            THEN LET stored == Min(Len(op[t].lpString[1]), op[t].nSize - 1)
                 IN  /\ ret[t] = stored
                     /\ Chars(buf[t][1], 1, stored + 1)
                           = Chars(op[t].lpString[1], 1, stored) \o <<0>>
            ELSE ret[t] = 0 /\ buf[t][1][1] = 0

\* C20: ReadInt returns the number the stored text denotes when the key
\* exists and its text is a number, and the caller's default otherwise
\* (key missing, text not a number, null section or key with
\* InvalidParameter, null path with FileNotFound), both as UINT; the call
\* changes no entry and no file.
C20_ReadIntParsedOrDefault ==
    /\ [](\A t \in Threads :
            Done(t, {"GetInt"}) =>
                IF op[t].lpFileName = Null
                THEN /\ ret[t] = ToUINT(op[t].defaultValue)
                     /\ lastError[t] = "ERROR_FILE_NOT_FOUND"
                ELSE IF op[t].appName = Null \/ op[t].keyName = Null
                THEN /\ ret[t] = ToUINT(op[t].defaultValue)
                     /\ lastError[t] = "ERROR_INVALID_PARAMETER"
                ELSE LET value == ReadLookup(before[t][1].ini, op[t])
                     IN  /\ lastError[t] = "none"
                         /\ configs[ref[t]] = before[t][1]
                         /\ IF value # Null /\ ToInteger(value[1]) # Null
                            THEN ret[t] = ToUINT(ToInteger(value[1])[1])
                            ELSE ret[t] = ToUINT(op[t].defaultValue))
    /\ [][\A t \in Threads :
            (pc[t] = "idle" /\ pc'[t] = "done" /\ op'[t].kind = "GetInt") =>
                /\ disk' = disk
                /\ \A i \in 1..Len(configs) : configs'[i] = configs[i]]_vars

\* C20's case: the key holds "-1" in an entry that is dirty, the caller's
\* default is 3, and ReadInt returned -1 as UINT; the entry is as it was.
C20_Witness ==
    \E t \in Threads :
        /\ Done(t, {"GetInt"}) /\ lastError[t] = "none"
        /\ ReadLookup(before[t][1].ini, op[t]) = Ptr(<<MinusSign, DigitOne>>)
        /\ op[t].defaultValue = 3
        /\ ret[t] = 2 ^ IntBits - 1
        /\ before[t][1].changed /\ configs[ref[t]] = before[t][1]

\* ---------------------------------------------------------- attach and detach
\* OverrideFunctions, one binding per step: AttachFunction on the next
\* binding of the table whatever the earlier attaches returned; after the
\* last one the handlers are in use.
OverrideFunctions(status, stored) ==
    /\ m_Functions.phase = "OverrideFunctions"
    /\ LET i == m_Functions.next
           f == AttachFunction(m_Functions, i, status, stored)
       IN m_Functions' = [f EXCEPT !.next = i + 1,
                                   !.phase = IF i = Len(FunctionNames) THEN "InUse" ELSE @]
    /\ UNCHANGED <<converter, options, m_INIMap, configs, disk, m_INIMapCS, locks, pc, op,
                   ref, buf, ret, lastError, memOk, saved, native, before, calls,
                   lastSet, wrote, sawSet>>

\* The process calls entry point i: an attached binding takes the call to
\* the replacement, a detached one leaves it with the original API.
CallFunction(i) ==
    /\ m_Functions.phase = "InUse"
    /\ m_Functions' =
           [m_Functions EXCEPT !.called =
               Ptr([name |-> FunctionNames[i],
                    target |-> IF m_Functions.status[i] = "Attached"
                               THEN "override" ELSE "api"])]
    /\ UNCHANGED <<converter, options, m_INIMap, configs, disk, m_INIMapCS, locks, pc, op,
                   ref, buf, ret, lastError, memOk, saved, native, before, calls,
                   lastSet, wrote, sawSet>>

\* The library is unloaded: teardown starts at the first binding.
Unload ==
    /\ m_Functions.phase = "InUse"
    /\ m_Functions' = [m_Functions EXCEPT !.phase = "RestoreFunctions", !.next = 1]
    /\ UNCHANGED <<converter, options, m_INIMap, configs, disk, m_INIMapCS, locks, pc, op,
                   ref, buf, ret, lastError, memOk, saved, native, before, calls,
                   lastSet, wrote, sawSet>>

\* RestoreFunctions, one binding per step: DetachFunction on the next
\* binding if it is attached, whatever the earlier detaches returned; a
\* binding that is not attached is passed over.
RestoreFunctions(status) ==
    /\ m_Functions.phase = "RestoreFunctions"
    /\ LET i == m_Functions.next
           f == IF m_Functions.status[i] = "Attached"
                THEN DetachFunction(m_Functions, i, status)
                ELSE m_Functions
       IN /\ m_Functions.status[i] # "Attached" => Succeeded(status)
          /\ m_Functions' = [f EXCEPT !.next = i + 1,
                                      !.phase = IF i = Len(FunctionNames) THEN "Unloaded" ELSE @]
    /\ UNCHANGED <<converter, options, m_INIMap, configs, disk, m_INIMapCS, locks, pc, op,
                   ref, buf, ret, lastError, memOk, saved, native, before, calls,
                   lastSet, wrote, sawSet>>

InitBind ==
    /\ converter = "cp1"
    /\ options = [SaveOnWrite |-> FALSE, NativeWrite |-> FALSE]
    /\ m_INIMap = <<>>
    /\ configs = <<>>
    /\ disk = InitialDisk
    /\ m_INIMapCS = 0
    /\ locks = <<>>
    /\ pc = [t \in Threads |-> "idle"]
    /\ op = [t \in Threads |-> NoOp]
    /\ ref = [t \in Threads |-> 0]
    /\ buf = [t \in Threads |-> Null]
    /\ ret = [t \in Threads |-> 0]
    /\ lastError = [t \in Threads |-> "none"]
    /\ memOk = [t \in Threads |-> FALSE]
    /\ saved = [t \in Threads |-> 0]
    /\ native = [t \in Threads |-> Null]
    /\ before = [t \in Threads |-> Null]
    /\ calls = [t \in Threads |-> 0]
    /\ lastSet = [p \in NormPaths |-> Null]
    /\ wrote = [p \in NormPaths |-> {}]
    /\ sawSet = [t \in Threads |-> Null]
    /\ m_Functions = InitFunctions

NextBind ==
    \/ \E status \in DetourStatuses, stored \in {"api", "trampoline"} :
           OverrideFunctions(status, stored)
    \/ \E i \in Functions : CallFunction(i)
    \/ Unload
    \/ \E status \in DetourStatuses : RestoreFunctions(status)

SpecBind == InitBind /\ [][NextBind]_vars

\* The log lines of one operation on binding i.
Logged(operation, i) ==
    {n \in 1..Len(m_Functions.log) :
        /\ m_Functions.log[n].operation = operation
        /\ m_Functions.log[n].name = FunctionNames[i]}

\* The bindings whose turn has passed in the running pass over the table.
Passed ==
    IF m_Functions.phase \in {"OverrideFunctions", "RestoreFunctions"}
    THEN 1..(m_Functions.next - 1)
    ELSE Functions

\* One binding's step: it stays, it is attached by its first and only
\* AttachFunction, or it is detached by a DetachFunction.
BindingStep(i) ==
    \/ m_Functions'.status[i] = m_Functions.status[i]
    \/ /\ m_Functions.status[i] = "Detached"
       /\ m_Functions'.status[i] = "Attached"
       /\ Logged("AttachFunction", i) = {}
       /\ Logged("DetachFunction", i) = {}
    \/ /\ m_Functions.status[i] = "Attached"
       /\ m_Functions'.status[i] = "Detached"
       /\ m_Functions.phase = "RestoreFunctions"

\* Every binding passed by OverrideFunctions has had its one attach
\* attempt, and is attached exactly if that attempt succeeded.
AttachAttempted(i) ==
    /\ Cardinality(Logged("AttachFunction", i)) = 1
    /\ m_Functions.phase \in {"OverrideFunctions", "InUse"} =>
           \A n \in Logged("AttachFunction", i) :
               (m_Functions.status[i] = "Attached") <=> Succeeded(m_Functions.log[n].status)

\* Every binding passed by RestoreFunctions was detached or never attached,
\* or its one detach attempt is in the log with a failure status.
DetachAttempted(i) ==
    LET attached == \E n \in Logged("AttachFunction", i) : Succeeded(m_Functions.log[n].status)
    IN /\ Cardinality(Logged("DetachFunction", i)) = IF attached THEN 1 ELSE 0
       /\ \A n \in Logged("DetachFunction", i) :
              (m_Functions.status[i] = "Detached") <=> Succeeded(m_Functions.log[n].status)
       /\ ~attached => m_Functions.status[i] = "Detached"

\* C21: a binding moves only Detached -> Attached -> Detached; during
\* OverrideFunctions every binding gets its attach attempt whatever the
\* other attaches returned, and one whose attach failed stays Detached, so
\* that its calls go to the original API; during RestoreFunctions every
\* attached binding gets its detach attempt whatever the other detaches
\* returned.
C21_BindingLifecycle ==
    /\ [][\A i \in Functions : BindingStep(i)]_vars
    /\ [](\A i \in Functions :
            /\ (m_Functions.phase # "RestoreFunctions" /\ m_Functions.phase # "Unloaded"
                  /\ i \in Passed) => AttachAttempted(i)
            /\ (m_Functions.phase \in {"RestoreFunctions", "Unloaded"} /\ i \in Passed)
                  => DetachAttempted(i)
            /\ (m_Functions.called # Null /\ m_Functions.phase = "InUse"
                  /\ m_Functions.called[1].name = FunctionNames[i])
                  => (m_Functions.called[1].target = "api"
                        <=> m_Functions.status[i] = "Detached"))

\* Reached: the first attach failed and later ones succeeded, a call to the
\* failed binding went to the original API, and at teardown a detach failed
\* and a later one succeeded.
C21_Witness ==
    /\ m_Functions.phase = "Unloaded"
    /\ m_Functions.log[1].status # 0
    /\ m_Functions.called = Ptr([name |-> FunctionNames[1], target |-> "api"])
    /\ m_Functions.status[1] = "Detached"
    /\ \E n, k \in 1..Len(m_Functions.log) :
          /\ n < k
          /\ m_Functions.log[n].operation = "DetachFunction"
          /\ ~Succeeded(m_Functions.log[n].status)
          /\ m_Functions.log[k].operation = "DetachFunction"
          /\ Succeeded(m_Functions.log[k].status)
    /\ Cardinality({i \in Functions : Logged("AttachFunction", i) # {}}) = Len(FunctionNames)

\* ---------------------------------------------------------- returned lengths
MaxListCalls == 2

\* Writes that add a key to a section and that delete a section's only key.
ListWriteOps ==
    {WriteOp(w, Ptr(a), Ptr(<<1>>), v, Ptr("a.ini")) :
        w \in Widths, a \in {<<2>>, <<4>>}, v \in {Null, Ptr(<<1>>)}}

\* One thread: writes, then reads in each of the three list modes, on a
\* file with sections and on a file that does not exist.
NextList ==
    \/ /\ calls[1] < MaxListCalls
       /\ \E o \in ListWriteOps : WriteStringT(1, o)
    \/ /\ calls[1] < MaxListCalls
       /\ \E w \in Widths, a \in {Null, Ptr(<<1>>), Ptr(<<4>>)}, n \in 2..MaxEnumSize,
             f \in NormPaths :
             GetStringT_Enumerate(1, w, a, n, f)
    \/ /\ calls[1] < MaxListCalls
       /\ \E w \in Widths, a \in {Ptr(<<1>>), Ptr(<<4>>)}, n \in 2..MaxEnumSize,
             f \in NormPaths :
             GetSectionT(1, w, a, Ptr(Stale(n + 1)), n, Ptr(f))
    \/ Return(1)

SpecList == Init /\ [][NextList]_vars

\* Thread t's read in one of the three list modes has returned.
ListRead(t) ==
    \/ Enumerated(t)
    \/ Returned(t, "GetSection") /\ lastError[t] = "none"

\* The items the document held for thread t's list read: names, or
\* key=value pairs, as the caller's characters.
ListItems(t) ==
    IF op[t].kind = "GetString" THEN EnumItems(t)
    ELSE LET ini == before[t][1].ini
             sectionName == EncodingTo(op[t].appName[1], op[t].w, converter)
         IN  [i \in 1..Len(op[t].order) |->
                 EncodingFrom(op[t].order[i], op[t].w, converter) \o <<EqualsSign>>
                    \o EncodingFrom(ini[sectionName][op[t].order[i]], op[t].w, converter)]

\* The length of the whole list: every item with its terminator, and the
\* extra terminator.
WholeListLength(t) == Len(Flatten(ListItems(t), Len(ListItems(t)))) + 1

\* C22 as stated: the returned length of a list read lies in 0..nSize-2.
\* It fails for a list that fills the capacity exactly.
C22_LengthAtMostCapacityMinusTwo ==
    \A t \in Threads :
        ListRead(t) => ret[t] \in 0..(op[t].nSize - 2)

\* C22: a list read with capacity nSize >= 2 returns nSize - 2 when the
\* whole list is longer than nSize, and the whole list's length minus one
\* when it fits (0 for a list without items); the result never wraps: it
\* lies in 0..nSize-1, nSize-1 being returned only for a list of exactly
\* nSize characters.
C22_ListLengthReturned ==
    \A t \in Threads :
        ListRead(t) =>
            /\ op[t].nSize >= 2
            /\ ret[t] = IF WholeListLength(t) > op[t].nSize
                        THEN op[t].nSize - 2
                        ELSE WholeListLength(t) - 1
            /\ ret[t] \in 0..(op[t].nSize - 1)
            /\ ret[t] = op[t].nSize - 1 <=> WholeListLength(t) = op[t].nSize

\* C22's case: a list that fills its capacity exactly was copied whole and
\* the call returned the capacity minus one.
C22_Witness ==
    /\ ListRead(1)
    /\ WholeListLength(1) = op[1].nSize
    /\ ret[1] = op[1].nSize - 1
    /\ buf[1][1][op[1].nSize] = 0
    /\ buf[1][1][1] # 0

\* ---------------------------------------------------------- ReadSection, stepwise
MaxBlockCalls == 3
MaxBlockSize == 12

\* GetSectionT is entered with arguments that pass its validation (lines
\* 335-349); keys, next and items are the locals of the list building.
GetSectionBegin(t, o) ==
    /\ pc[t] = "idle"
    /\ GetSectionValidate(o) = "ok"
    /\ calls' = [calls EXCEPT ![t] = @ + 1]
    /\ op' = [op EXCEPT ![t] = o]
    /\ buf' = [buf EXCEPT ![t] = o.lpReturnedString]
    /\ lastError' = [lastError EXCEPT ![t] = "none"]
    /\ pc' = [pc EXCEPT ![t] = "lookup"]
    /\ UNCHANGED <<converter, m_Functions, options, m_INIMap, configs, disk, m_INIMapCS, locks, ref,
                   ret, native, memOk, saved, before, lastSet, wrote, sawSet>>

\* configObject.LockShared() (line 355): waits while a writer holds the entry.
LockSharedSection(t) ==
    /\ pc[t] = "lock"
    /\ op[t].kind = "GetSection"
    /\ locks[ref[t]].exclusive = 0
    /\ locks' = [locks EXCEPT ![ref[t]].shared = @ \cup {t}]
    /\ before' = [before EXCEPT ![t] = Ptr(configs[ref[t]])]
    /\ pc' = [pc EXCEPT ![t] = "body"]
    /\ UNCHANGED <<converter, m_Functions, options, m_INIMap, configs, disk, m_INIMapCS, op, ref, buf,
                   ret, lastError, memOk, saved, native, calls, lastSet, wrote, sawSet>>

\* A snapshot of the key names that gives the shared lock up, so that the
\* values are queried with no lock held.
GetSectionKeyNames_ReleasesLock(t) ==
    /\ pc[t] = "body"
    /\ op[t].kind = "GetSection"
    /\ \E order \in Orders(EnumNames(configs[ref[t]].ini, op[t], converter)) :
          op' = [op EXCEPT ![t].order = order]
    /\ locks' = [locks EXCEPT ![ref[t]].shared = @ \ {t}]
    /\ pc' = [pc EXCEPT ![t] = "query"]
    /\ UNCHANGED <<converter, m_Functions, options, m_INIMap, configs, disk, m_INIMapCS, ref,
                   buf, ret, lastError, memOk, saved, native, before, calls, lastSet, wrote,
                   sawSet>>

\* ini.GetKeyNames(sectionName) (line 374): the key names of the section as
\* the document holds them now, in the document's order.
GetSectionKeyNames(t) ==
    /\ pc[t] = "body"
    /\ op[t].kind = "GetSection"
    /\ \E order \in Orders(EnumNames(configs[ref[t]].ini, op[t], converter)) :
          op' = [op EXCEPT ![t].order = order]
    /\ pc' = [pc EXCEPT ![t] = "query"]
    /\ UNCHANGED <<converter, m_Functions, options, m_INIMap, configs, disk, m_INIMapCS, locks, ref,
                   buf, ret, lastError, memOk, saved, native, before, calls, lastSet, wrote,
                   sawSet>>

\* The callback of lines 364-373 for the next key name: the value is
\* queried from the document as it is now; a key that has a value gives an
\* item key=value, a key that has none is discarded.
GetSectionQuery(t) ==
    /\ pc[t] = "query"
    /\ Len(op[t].items) + op[t].discarded < Len(op[t].order)
    /\ LET keyName == op[t].order[Len(op[t].items) + op[t].discarded + 1]
           sectionName == EncodingTo(op[t].appName[1], op[t].w, converter)
           value == QueryValue(configs[ref[t]].ini, sectionName, keyName)
       IN  op' = [op EXCEPT ![t] =
                    IF value # Null
                    THEN [@ EXCEPT !.items = Append(@,
                             EncodingFrom(keyName, op[t].w, converter) \o <<EqualsSign>>
                                \o EncodingFrom(value[1], op[t].w, converter))]
                    ELSE [@ EXCEPT !.discarded = @ + 1]]
    /\ UNCHANGED <<converter, m_Functions, options, m_INIMap, configs, disk, m_INIMapCS, locks, pc,
                   ref, buf, ret, lastError, memOk, saved, native, before, calls, lastSet,
                   wrote, sawSet>>

\* Lines 374-397: the list of the items within the capacity, copied to the
\* caller's buffer; the shared lock is released at the return.
GetSectionBody(t) ==
    /\ pc[t] = "query"
    /\ Len(op[t].items) + op[t].discarded = Len(op[t].order)
    /\ LET keyValuePairs == CreateZSSTRZZ(op[t].items, op[t].nSize)
           c == StringCopyBuffer(op[t].lpReturnedString, op[t].nSize,
                                 Ptr(keyValuePairs.list), Len(keyValuePairs.list))
       IN  /\ buf' = [buf EXCEPT ![t] = c.dst]
           /\ ret' = [ret EXCEPT ![t] =
                        IF c.hr = "STRSAFE_E_INSUFFICIENT_BUFFER" \/ keyValuePairs.truncated
                        THEN ToUINT(op[t].nSize - 2)
                        ELSE ToUINT(Len(keyValuePairs.list) - 1)]
    /\ locks' = [locks EXCEPT ![ref[t]].shared = @ \ {t}]
    /\ pc' = [pc EXCEPT ![t] = "done"]
    /\ UNCHANGED <<converter, m_Functions, options, m_INIMap, configs, disk, m_INIMapCS, op, ref,
                   lastError, memOk, saved, native, before, calls, lastSet, wrote, sawSet>>

\* A block read of section "a" of the first file, its list-building locals
\* empty.
BlockReadOps ==
    {[GetSectionOp("W", Ptr(<<1>>), Ptr(Stale(n)), n, Ptr("a.ini"), <<>>)
         EXCEPT !.order = <<>>] @@ [items |-> <<>>, discarded |-> 0] :
        n \in {MaxEnumSize, MaxBlockSize}}

\* Writes to the keys of section "a" of the first file: a new value, a
\* deleted key, a new key.
BlockWriteOps ==
    {WriteOp("W", Ptr(<<1>>), Ptr(k), v, Ptr("a.ini")) :
        k \in {<<1>>, <<2>>}, v \in {Null, Ptr(<<2>>)}}

NextBlock ==
    \/ /\ TotalCalls < MaxBlockCalls
       /\ \E t \in Threads : \E o \in BlockWriteOps : BeginCall(t, o)
    \/ /\ TotalCalls < MaxBlockCalls
       /\ \E t \in Threads : \E o \in BlockReadOps : GetSectionBegin(t, o)
    \/ \E t \in Threads : AcquireMap(t)
    \/ \E t \in Threads : FindEntry(t)
    \/ \E t \in Threads : LoadEntry(t)
    \/ \E t \in Threads : LockSharedSection(t)
    \/ \E t \in Threads : LockExclusive(t)
    \/ \E t \in Threads : GetSectionKeyNames(t)
    \/ \E t \in Threads : GetSectionQuery(t)
    \/ \E t \in Threads : GetSectionBody(t)
    \/ \E t \in Threads : WriteStringBody(t)
    \/ \E t \in Threads : Return(t)

SpecBlock == InitConc /\ [][NextBlock]_vars

\* Thread t is inside the shared-lock hold of a block read.
ReadingBlock(t) == op[t].kind = "GetSection" /\ pc[t] \in {"body", "query"}

\* The key names of thread t's snapshot are the keys the section had in the
\* entry as thread t locked it, each once.
WholeSnapshot(t) ==
    LET ini == before[t][1].ini
        sectionName == EncodingTo(op[t].appName[1], op[t].w, converter)
    IN  /\ Len(op[t].order) = Cardinality(Keys(ini, sectionName))
        /\ \A k \in Keys(ini, sectionName) : \E i \in 1..Len(op[t].order) : op[t].order[i] = k

\* C23: a block read holds its shared lock from before the key-name
\* snapshot to the return, and the entry does not change during the hold,
\* whatever WriteString calls other threads have under way on the path: the
\* snapshot holds every key of the section, no key is discarded for want of
\* a value, and the block returned is the block of the entry's one state
\* during the hold, cut to the capacity.
C23_BlockOfOneState ==
    \A t \in Threads :
        /\ ReadingBlock(t) =>
              /\ t \in locks[ref[t]].shared
              /\ locks[ref[t]].exclusive = 0
              /\ configs[ref[t]] = before[t][1]
              /\ op[t].discarded = 0
              /\ pc[t] = "query" => WholeSnapshot(t)
        /\ Returned(t, "GetSection") =>
              /\ WholeSnapshot(t)
              /\ op[t].discarded = 0
              /\ LET r == GetSectionValue(before[t][1].ini, op[t], converter, op[t].order)
                 IN  buf[t] = r.buf /\ ret[t] = r.result

\* C23's case: a block read returned both keys of the section, one of them
\* with a value an earlier WriteString gave it, while another thread's
\* WriteString to the same entry was waiting for the lock.
C23_Witness ==
    /\ Returned(1, "GetSection")
    /\ Len(op[1].items) = 2
    /\ before[1][1].ini # InitialINI
    /\ ret[1] = Len(Flatten(op[1].items, 2))
    /\ pc[2] = "lock"
    /\ op[2].kind = "WriteString"
    /\ ref[2] = ref[1]

\* ---------------------------------------------------------- reads and the cache
MaxReadCalls == 3

\* Writes that set and delete one key, in a file that exists and in one
\* that does not.
ReadWriteOps ==
    {WriteOp("W", Ptr(<<1>>), Ptr(<<1>>), v, Ptr(f)) :
        v \in {Null, Ptr(<<DigitOne>>)}, f \in NormPaths}

\* Value reads of a key that exists and of one that does not.
ReadValueOps ==
    {GetStringOp(w, Ptr(<<1>>), Ptr(k), d, MaxSize, Ptr(f)) :
        w \in Widths, k \in {<<1>>, <<2, 2>>}, d \in {Null, Ptr(<<1>>)}, f \in NormPaths}

ReadIntOps ==
    {GetIntOp(w, Ptr(<<1>>), Ptr(k), 3, Ptr(f)) :
        w \in Widths, k \in {<<1>>, <<2, 2>>}, f \in NormPaths}

\* One thread: writes, and every read handler in every mode.
NextRead ==
    \/ /\ calls[1] < MaxReadCalls
       /\ \E o \in ReadWriteOps : WriteStringT(1, o)
    \/ /\ calls[1] < MaxReadCalls
       /\ \E o \in ReadValueOps : GetStringT(1, o)
    \/ /\ calls[1] < MaxReadCalls
       /\ \E w \in Widths, a \in {Null, Ptr(<<1>>)}, n \in {2, MaxEnumSize}, f \in NormPaths :
             GetStringT_Enumerate(1, w, a, n, f)
    \/ /\ calls[1] < MaxReadCalls
       /\ \E o \in ReadIntOps : GetIntT(1, o)
    \/ /\ calls[1] < MaxReadCalls
       /\ \E w \in Widths, n \in {2, MaxEnumSize}, f \in NormPaths :
             GetSectionT(1, w, Ptr(<<1>>), Ptr(Stale(n)), n, Ptr(f))
    \/ Return(1)

SpecRead == Init /\ [][NextRead]_vars

ReadKinds == {"GetString", "GetInt", "GetSection"}

\* This step is thread t's whole call of a read handler.
ReadStep(t) ==
    /\ pc[t] = "idle" /\ pc'[t] = "done"
    /\ op'[t].kind \in ReadKinds

\* C24: a call of a read handler leaves every entry of the cache as it was
\* (document, changed flag, existOnDisk flag), keeps every path of the
\* registry on its entry, calls no SaveFile and leaves the files alone; it
\* adds at most one entry, only for a path that had none, and that entry is
\* what LoadFile gives for the path.
C24_ReadLeavesCacheAlone ==
    [][\A t \in Threads :
          ReadStep(t) =>
              LET path == NormalizeFilePath(op'[t].lpFileName[1])
                  n == Len(configs)
              IN  /\ disk' = disk
                  /\ saved' = saved
                  /\ native' = native
                  /\ \A i \in 1..n : configs'[i] = configs[i]
                  /\ \A p \in DOMAIN m_INIMap : p \in DOMAIN m_INIMap' /\ m_INIMap'[p] = m_INIMap[p]
                  /\ Len(configs') \in {n, n + 1}
                  /\ Len(configs') = n + 1 =>
                        /\ FindFile(m_INIMap, op'[t].lpFileName[1]) = 0
                        /\ FindFile(m_INIMap', op'[t].lpFileName[1]) = n + 1
                        /\ configs'[n + 1] = LoadFile(path, disk)
                        /\ ~configs'[n + 1].changed
                  /\ Len(configs') = n => m_INIMap' = m_INIMap]_vars

\* C24's case: after a write left the first file's entry changed and
\* holding what the file does not hold, a read of the other file, which
\* does not exist, returned; it added that file's entry, and the first
\* entry is still changed and still differs from its file.
C24_Witness ==
    /\ Done(1, ReadKinds)
    /\ Len(configs) = 2
    /\ configs[1].path = "a.ini" /\ configs[1].changed /\ ~SameAsFile(configs[1])
    /\ ref[1] = 2
    /\ configs[2] = EmptyEntry("b.ini")
    /\ disk["b.ini"] = Null

====
